---- MODULE Spec2Model ----
(***************************************************************************)
(* Layer2-DDNS: the cross-layer bridge (DDNSBridge, src/client.js 530-889) *)
(* between the L1 registry (src/layer1.sol) and the L2 resolver            *)
(* (src/layer2.sol).                                                       *)
(*                                                                         *)
(* Every await of the JavaScript code is a separate step: between the call *)
(* of an RPC and the resumption of its caller any other callback may run.  *)
(* The code between two awaits runs to completion and is one action.       *)
(***************************************************************************)
EXTENDS Integers, Sequences, FiniteSets, TLC

\* ---------------------------------------------------------------- bounds
\* blocks the L1 chain grows by during a run
MaxBlocks == 2
\* calls of start() during a run
MaxStarts == 1
\* poll cycles (processNewEvents) in flight at the same time
MaxPolls == 2
\* apply ticks in flight at the same time
MaxApplies == 1
\* RPC / content-store calls that fail during a run
MaxFaults == 2

\* config.maxRetries, the retry budget the bridge is constructed with
maxRetries == 1

\* ------------------------------------------------------ program constants
\* the backward offset of start()
SafetyWindow == 10000
\* the registry as deployed: registrationFee = 0.01 ether, in hundredths of an
\* ether, and renewalPeriod = 365 days, in seconds
InitialFee == 1
InitialPeriod == 31536000
\* msg.value of a payable call, in hundredths of an ether
Payments == {0, 1, 2}
\* the fees and the renewal periods the contract owner sets
Fees == {2}
Periods == {9000}
\* who calls the owner-only functions: the deployer, who is the contract owner,
\* or somebody else
Callers == {"deployer", "user1"}
\* records.ttl || 3600
DefaultTtl == 3600

\* -------------------------------------------------------------- universes
Domains == {"d1"}
HashZero == "0x0"
AddressZero == "0x0"
\* the accounts a domain is transferred to
NewOwners == {AddressZero, "user2"}
Contents == {"c1", "c2"}
\* the heights the chain may stand at when the bridge object is constructed
InitHeights == {9999}
NoTimer == 0

VARIABLES
  \* L1 registry (src/layer1.sol) and its chain
  l1Height,            \* provider.getBlockNumber()
  l1Events,            \* the event log, in block order
  l1Domains,           \* domains mapping: domainHash -> DomainRecord
  registrationFee,     \* DDNSRegistry.registrationFee
  renewalPeriod,       \* DDNSRegistry.renewalPeriod
  \* DDNSBridge fields
  lastProcessedBlock,
  queue,
  stats,
  pollingInterval,     \* NoTimer while it holds the configured number, else a timer handle
  timers,              \* the intervals that are scheduled and not cleared
  timersCreated,       \* calls of setInterval so far
  \* activations
  startCall,           \* the (latest) call of start()
  starts,              \* calls of start() so far
  polls,               \* poll-timer callbacks in flight
  applies,             \* apply-timer callbacks in flight
  \* L2 resolver (src/layer2.sol)
  l2Records,
  l2Types,
  \* environment
  faults,              \* failed external calls so far
  stopped,             \* stop() has returned true since the last successful start()
  \* one task applied repeatedly to a fast ledger
  fetched,             \* the record set the content store returns for the task
  applyCount,          \* applications of the task so far
  ledgerOnce,          \* the fast ledger as found, then as the first accepted write left it
  batch,               \* the arrays of the last batch write, and the writes so far
  runs,                \* the calls of processDomainUpdate made on the task
  \* DDNSClient fields and its environment
  now,                 \* Date.now(), in milliseconds
  cache,
  clientStats,
  config,              \* useCache, preferL2, verifyWithL1
  call,                \* the resolveDomain or resolveBatch call in progress
  calls,               \* calls of resolveDomain and resolveBatch so far
  l1Expiry,            \* DDNSRegistry: expiryDate of the domain records, in seconds
  ticks,               \* advances of the clock so far
  report,              \* what the last call of getStats() returned
  \* DDNSResolver field, and the calls made on the contract
  bridgeAddress,
  txs                  \* transactions sent to the resolver so far

harnessVars == <<fetched, applyCount, ledgerOnce, batch, runs>>
clientVars == <<now, cache, clientStats, config, call, calls, ticks>>
sideVars == <<report, bridgeAddress, txs>>

vars == <<l1Height, l1Events, l1Domains, l1Expiry, registrationFee, renewalPeriod,
          lastProcessedBlock, queue, stats,
          pollingInterval, timers, timersCreated, startCall, starts, polls,
          applies, l2Records, l2Types, faults, stopped, harnessVars, clientVars, sideVars>>

l1Vars == <<l1Height, l1Events, l1Domains, l1Expiry, registrationFee, renewalPeriod>>
l2Vars == <<l2Records, l2Types>>
timerVars == <<pollingInterval, timers, timersCreated>>
bridgeVars == <<lastProcessedBlock, queue, stats, timerVars, startCall, starts, polls,
                applies, stopped>>

\* ------------------------------------------------------------ L1 registry
UpdatedEvent(d, c, b) ==
  [kind |-> "DomainUpdated", domainHash |-> d, contentHash |-> c, blockNumber |-> b,
   expiryDate |-> 0, value |-> 0]

\* DomainRegistered carries the expiry date and no content hash; the field is the
\* unused placeholder
RegisteredEvent(d, b, x) ==
  [kind |-> "DomainRegistered", domainHash |-> d, contentHash |-> HashZero,
   blockNumber |-> b, expiryDate |-> x, value |-> 0]

\* DomainRenewed carries the new expiry date
RenewedEvent(d, b, x) ==
  [kind |-> "DomainRenewed", domainHash |-> d, contentHash |-> HashZero,
   blockNumber |-> b, expiryDate |-> x, value |-> 0]

\* DomainTransferred(domainHash, oldOwner, newOwner); the registry keeps of an
\* owner only whether it is set, and so does the event
TransferredEvent(d, b) ==
  [kind |-> "DomainTransferred", domainHash |-> d, contentHash |-> HashZero,
   blockNumber |-> b, expiryDate |-> 0, value |-> 0]

\* RegistrationFeeChanged(newFee) and RenewalPeriodChanged(newPeriod)
ChangedEvent(kind, b, v) ==
  [kind |-> kind, domainHash |-> "", contentHash |-> HashZero, blockNumber |-> b,
   expiryDate |-> 0, value |-> v]

\* require(msg.sender == owner)
onlyOwner(s) == s = "deployer"

ChainOpen == \E h0 \in InitHeights : l1Height < h0 + MaxBlocks /\ l1Height >= h0

\* block.timestamp, in seconds
blockTimestamp == now \div 1000

\* registerDomain, sent with msg.value v: a new block holding the transaction
registerDomain(d, v) ==
  /\ ChainOpen
  /\ l1Domains[d].owner = FALSE
  /\ v >= registrationFee
  /\ l1Height' = l1Height + 1
  /\ l1Domains' = [l1Domains EXCEPT ![d] = [owner |-> TRUE, contentHash |-> HashZero]]
  /\ l1Expiry' = [l1Expiry EXCEPT ![d] = blockTimestamp + renewalPeriod]
  /\ l1Events' = Append(l1Events,
                        RegisteredEvent(d, l1Height + 1, blockTimestamp + renewalPeriod))
  /\ UNCHANGED <<registrationFee, renewalPeriod>>

\* updateDomain: only the owner of a registered domain that has not expired
updateDomain(d, c) ==
  /\ ChainOpen
  /\ l1Domains[d].owner = TRUE
  /\ blockTimestamp < l1Expiry[d]
  /\ l1Height' = l1Height + 1
  /\ l1Domains' = [l1Domains EXCEPT ![d].contentHash = c]
  /\ l1Events' = Append(l1Events, UpdatedEvent(d, c, l1Height + 1))
  /\ UNCHANGED <<l1Expiry, registrationFee, renewalPeriod>>

\* renewDomain, sent with msg.value v: only the owner; the expiry date moves on
\* by one renewal period, whether or not it has passed
renewDomain(d, v) ==
  /\ ChainOpen
  /\ l1Domains[d].owner = TRUE
  /\ v >= registrationFee
  /\ l1Height' = l1Height + 1
  /\ l1Expiry' = [l1Expiry EXCEPT ![d] = @ + renewalPeriod]
  /\ l1Events' = Append(l1Events, RenewedEvent(d, l1Height + 1, l1Expiry[d] + renewalPeriod))
  /\ UNCHANGED <<l1Domains, registrationFee, renewalPeriod>>

\* transferDomain: only the owner of a registered domain that has not expired,
\* and not to the zero address; the domain stays owned, its content hash and
\* its expiry date stay as they are
transferDomain(d, newOwner) ==
  /\ ChainOpen
  /\ l1Domains[d].owner = TRUE
  /\ blockTimestamp < l1Expiry[d]
  /\ newOwner # AddressZero
  /\ l1Height' = l1Height + 1
  /\ l1Events' = Append(l1Events, TransferredEvent(d, l1Height + 1))
  /\ UNCHANGED <<l1Domains, l1Expiry, registrationFee, renewalPeriod>>

\* setRegistrationFee(newFee), called by s: only the contract owner
setRegistrationFee(s, f) ==
  /\ ChainOpen
  /\ onlyOwner(s)
  /\ l1Height' = l1Height + 1
  /\ registrationFee' = f
  /\ l1Events' = Append(l1Events, ChangedEvent("RegistrationFeeChanged", l1Height + 1, f))
  /\ UNCHANGED <<l1Domains, l1Expiry, renewalPeriod>>

\* setRenewalPeriod(newPeriod), called by s: only the contract owner
setRenewalPeriod(s, p) ==
  /\ ChainOpen
  /\ onlyOwner(s)
  /\ l1Height' = l1Height + 1
  /\ renewalPeriod' = p
  /\ l1Events' = Append(l1Events, ChangedEvent("RenewalPeriodChanged", l1Height + 1, p))
  /\ UNCHANGED <<l1Domains, l1Expiry, registrationFee>>

\* a block without a registry transaction
mineBlock ==
  /\ ChainOpen
  /\ l1Height' = l1Height + 1
  /\ UNCHANGED <<l1Events, l1Domains, l1Expiry, registrationFee, renewalPeriod>>

L1Step ==
  /\ \/ \E d \in Domains, v \in Payments : registerDomain(d, v)
     \/ \E d \in Domains, c \in Contents : updateDomain(d, c)
     \/ \E d \in Domains, v \in Payments : renewDomain(d, v)
     \/ \E d \in Domains, o \in NewOwners : transferDomain(d, o)
     \/ \E s \in Callers, f \in Fees : setRegistrationFee(s, f)
     \/ \E s \in Callers, p \in Periods : setRenewalPeriod(s, p)
     \/ mineBlock
  /\ UNCHANGED <<lastProcessedBlock, queue, stats, timerVars, startCall, starts,
                 polls, applies, l2Vars, faults>>
  /\ UNCHANGED <<stopped, harnessVars, sideVars, clientVars>>

\* mutant of queryFilter: toBlock is excluded from the range
queryFilterBelowTo(kind, from, to) ==
  SelectSeq(l1Events, LAMBDA e : e.kind = kind /\ e.blockNumber >= from /\ e.blockNumber < to)

\* queryFilter(filter, fromBlock, toBlock): the events of one class in [from, to]
queryFilter(kind, from, to) ==
  SelectSeq(l1Events, LAMBDA e : e.kind = kind /\ e.blockNumber >= from /\ e.blockNumber <= to)

\* getDomain(domainHash): the content hash of the current record
getDomain(d) == l1Domains[d].contentHash

\* an external call may fail while the fault budget lasts
CanFault == faults < MaxFaults

\* ------------------------------------------------ the constructor's values
ZeroStats == [eventsProcessed |-> 0, updatesSynced |-> 0, errors |-> 0,
              ipfsRetrievalErrors |-> 0, l2SubmissionErrors |-> 0]

PollIdle == [pc |-> "idle", currentBlock |-> 0, updateEvents |-> <<>>,
             registerEvents |-> <<>>, idx |-> 0]

NoItem == [type |-> "none", domainHash |-> "", contentHash |-> HashZero,
           blockNumber |-> 0, retries |-> 0]

ApplyIdle == [pc |-> "idle", item |-> NoItem, recordTypes |-> <<>>, values |-> <<>>,
              ttls |-> <<>>]

\* ------------------------------------------------------------------ Queue
enqueue(q, item) == Append(q, item)
isEmpty(q) == Len(q) = 0
Front(q) == Head(q)
dequeue(q) == Tail(q)

\* ---------------------------------------------------------------- start()
StartIdle == [pc |-> "none", currentBlock |-> 0, result |-> FALSE]

\* start() is called: it awaits l1Provider.getBlockNumber()
StartBegin ==
  /\ starts < MaxStarts
  /\ startCall.pc \in {"none", "returned"}
  /\ startCall' = [pc |-> "height", currentBlock |-> 0, result |-> FALSE]
  /\ starts' = starts + 1
  /\ UNCHANGED <<l1Vars, lastProcessedBlock, queue, stats, timerVars, polls,
                 applies, l2Vars, faults>>
  /\ UNCHANGED <<stopped, harnessVars, sideVars, clientVars>>

\* startPolling(); startQueueProcessing(): two setInterval calls, the handle of
\* the first one overwrites this.pollingInterval
StartTimers ==
  /\ timers' = timers \cup {[id |-> timersCreated + 1, kind |-> "poll"],
                            [id |-> timersCreated + 2, kind |-> "apply"]}
  /\ pollingInterval' = timersCreated + 1
  /\ timersCreated' = timersCreated + 2

\* mutant of StartResume: the offset is 10 blocks
StartResumeWindowTen ==
  /\ startCall.pc = "height"
  /\ lastProcessedBlock' = l1Height - 10
  /\ StartTimers
  /\ startCall' = [pc |-> "returned", currentBlock |-> l1Height, result |-> TRUE]
  /\ UNCHANGED <<l1Vars, queue, stats, starts, polls, applies, l2Vars, faults>>
  /\ stopped' = FALSE
  /\ UNCHANGED <<harnessVars, sideVars, clientVars>>

\* getBlockNumber resolved: the rest of the try block runs, start() returns true
StartResume ==
  /\ startCall.pc = "height"
  /\ lastProcessedBlock' = l1Height - SafetyWindow
  /\ StartTimers
  /\ startCall' = [pc |-> "returned", currentBlock |-> l1Height, result |-> TRUE]
  /\ UNCHANGED <<l1Vars, queue, stats, starts, polls, applies, l2Vars, faults>>
  /\ stopped' = FALSE
  /\ UNCHANGED <<harnessVars, sideVars, clientVars>>

\* mutant of StartFail: the intervals are scheduled before the height is read
StartFailAfterTimers ==
  /\ startCall.pc = "height"
  /\ CanFault
  /\ faults' = faults + 1
  /\ StartTimers
  /\ startCall' = [pc |-> "returned", currentBlock |-> 0, result |-> FALSE]
  /\ UNCHANGED <<l1Vars, lastProcessedBlock, queue, stats, starts, polls, applies,
                 l2Vars>>
  /\ UNCHANGED <<stopped, harnessVars, sideVars, clientVars>>

\* getBlockNumber rejected: the catch returns false
StartFail ==
  /\ startCall.pc = "height"
  /\ CanFault
  /\ faults' = faults + 1
  /\ startCall' = [pc |-> "returned", currentBlock |-> 0, result |-> FALSE]
  /\ UNCHANGED <<l1Vars, lastProcessedBlock, queue, stats, timerVars, starts,
                 polls, applies, l2Vars>>
  /\ UNCHANGED <<stopped, harnessVars, sideVars, clientVars>>

\* stop(): clears the interval this.pollingInterval names, if it is truthy, and
\* returns true; before a successful start() the field holds the configured
\* period, which names no interval
stop ==
  /\ timers' = {t \in timers : t.id # pollingInterval}
  /\ UNCHANGED <<l1Vars, lastProcessedBlock, queue, stats, pollingInterval,
                 timersCreated, startCall, starts, polls, applies, l2Vars, faults>>
  /\ stopped' = TRUE
  /\ UNCHANGED <<harnessVars, sideVars, clientVars>>

\* ------------------------------------------------------ processNewEvents()
\* a timer callback takes the lowest free activation record
Lowest(slots, p) == slots[p].pc = "idle" /\ \A o \in 1..(p - 1) : slots[o].pc # "idle"

TimerSet(kind) == \E t \in timers : t.kind = kind

\* the task built from a DomainUpdated event
UpdateTask(e) ==
  [type |-> "update", domainHash |-> e.domainHash, contentHash |-> e.contentHash,
   blockNumber |-> e.blockNumber, retries |-> 0]

\* the task built from a DomainRegistered event and the record read for it
RegisterTask(e, c) ==
  [type |-> "register", domainHash |-> e.domainHash, contentHash |-> c,
   blockNumber |-> e.blockNumber, retries |-> 0]

RECURSIVE EnqueueUpdates(_, _)
\* for (const event of updateEvents) this.queue.enqueue({...})
EnqueueUpdates(q, events) ==
  IF events = <<>> THEN q
  ELSE EnqueueUpdates(enqueue(q, UpdateTask(Head(events))), Tail(events))

\* the catch of the polling callback
PollCatch == stats' = [stats EXCEPT !.errors = @ + 1]

\* the poll timer fires: processNewEvents() awaits getBlockNumber()
PollTick(p) ==
  /\ TimerSet("poll")
  /\ Lowest(polls, p)
  /\ polls' = [polls EXCEPT ![p].pc = "height"]
  /\ UNCHANGED <<l1Vars, lastProcessedBlock, queue, stats, timerVars, startCall,
                 starts, applies, l2Vars, faults>>
  /\ UNCHANGED <<stopped, harnessVars, sideVars, clientVars>>

\* getBlockNumber resolved with a height the cursor has reached: return
PollNoNewBlock(p) ==
  /\ polls[p].pc = "height"
  /\ l1Height <= lastProcessedBlock
  /\ polls' = [polls EXCEPT ![p] = PollIdle]
  /\ UNCHANGED <<l1Vars, lastProcessedBlock, queue, stats, timerVars, startCall,
                 starts, applies, l2Vars, faults>>
  /\ UNCHANGED <<stopped, harnessVars, sideVars, clientVars>>

\* getBlockNumber resolved with a new height: the DomainUpdated query is sent
\* over lastProcessedBlock + 1 .. currentBlock
PollQueryUpdates(p) ==
  /\ polls[p].pc = "height"
  /\ l1Height > lastProcessedBlock
  /\ polls' = [polls EXCEPT ![p] =
       [pc |-> "queryUpdated", currentBlock |-> l1Height,
        updateEvents |-> queryFilter("DomainUpdated", lastProcessedBlock + 1, l1Height),
        registerEvents |-> <<>>, idx |-> 0]]
  /\ UNCHANGED <<l1Vars, lastProcessedBlock, queue, stats, timerVars, startCall,
                 starts, applies, l2Vars, faults>>
  /\ UNCHANGED <<stopped, harnessVars, sideVars, clientVars>>

\* mutant of PollQueryRegistered: the cursor moves before the second query
PollQueryRegisteredAdvancing(p) ==
  /\ polls[p].pc = "queryUpdated"
  /\ lastProcessedBlock' = polls[p].currentBlock
  /\ polls' = [polls EXCEPT ![p].pc = "queryRegistered",
                            ![p].registerEvents =
                               queryFilter("DomainRegistered", lastProcessedBlock + 1,
                                           polls[p].currentBlock)]
  /\ UNCHANGED <<l1Vars, queue, stats, timerVars, startCall, starts, applies,
                 l2Vars, faults>>
  /\ UNCHANGED <<stopped, harnessVars, sideVars, clientVars>>

\* the DomainUpdated query resolved: the DomainRegistered query is sent over
\* lastProcessedBlock + 1 .. currentBlock
PollQueryRegistered(p) ==
  /\ polls[p].pc = "queryUpdated"
  /\ polls' = [polls EXCEPT ![p].pc = "queryRegistered",
                            ![p].registerEvents =
                               queryFilter("DomainRegistered", lastProcessedBlock + 1,
                                           polls[p].currentBlock)]
  /\ UNCHANGED <<l1Vars, lastProcessedBlock, queue, stats, timerVars, startCall,
                 starts, applies, l2Vars, faults>>
  /\ UNCHANGED <<stopped, harnessVars, sideVars, clientVars>>

\* the height read or one of the two queries rejected: processNewEvents throws
PollQueryFail(p) ==
  /\ polls[p].pc \in {"height", "queryUpdated", "queryRegistered"}
  /\ CanFault
  /\ faults' = faults + 1
  /\ PollCatch
  /\ polls' = [polls EXCEPT ![p] = PollIdle]
  /\ UNCHANGED <<l1Vars, lastProcessedBlock, queue, timerVars, startCall, starts,
                 applies, l2Vars>>
  /\ UNCHANGED <<stopped, harnessVars, sideVars, clientVars>>

\* the DomainRegistered query resolved: the cursor moves, every update event is
\* enqueued, and the loop over the registration events awaits its first getDomain
PollAdvance(p) ==
  /\ polls[p].pc = "queryRegistered"
  /\ lastProcessedBlock' = polls[p].currentBlock
  /\ queue' = EnqueueUpdates(queue, polls[p].updateEvents)
  /\ stats' = [stats EXCEPT !.eventsProcessed = @ + Len(polls[p].updateEvents)]
  /\ polls' = [polls EXCEPT ![p] =
       IF polls[p].registerEvents = <<>> THEN PollIdle
       ELSE [polls[p] EXCEPT !.pc = "getDomain", !.idx = 1]]
  /\ UNCHANGED <<l1Vars, timerVars, startCall, starts, applies, l2Vars, faults>>
  /\ UNCHANGED <<stopped, harnessVars, sideVars, clientVars>>

\* mutant of PollGetDomain: the content hash read is not examined
PollGetDomainAlways(p) ==
  /\ polls[p].pc = "getDomain"
  /\ LET e == polls[p].registerEvents[polls[p].idx]
         c == getDomain(e.domainHash)
     IN /\ queue' = enqueue(queue, RegisterTask(e, c))
        /\ stats' = [stats EXCEPT !.eventsProcessed = @ + 1]
        /\ polls' = [polls EXCEPT ![p] =
             IF polls[p].idx = Len(polls[p].registerEvents) THEN PollIdle
             ELSE [polls[p] EXCEPT !.idx = @ + 1]]
  /\ UNCHANGED <<l1Vars, lastProcessedBlock, timerVars, startCall, starts, applies,
                 l2Vars, faults>>
  /\ UNCHANGED <<stopped, harnessVars, sideVars, clientVars>>

\* getDomain resolved: a register task is enqueued when the record holds a
\* content hash; then the next registration event, or the end of the cycle
PollGetDomain(p) ==
  /\ polls[p].pc = "getDomain"
  /\ LET e == polls[p].registerEvents[polls[p].idx]
         c == getDomain(e.domainHash)
     IN /\ IF c # HashZero
           THEN /\ queue' = enqueue(queue, RegisterTask(e, c))
                /\ stats' = [stats EXCEPT !.eventsProcessed = @ + 1]
           ELSE UNCHANGED <<queue, stats>>
        /\ polls' = [polls EXCEPT ![p] =
             IF polls[p].idx = Len(polls[p].registerEvents) THEN PollIdle
             ELSE [polls[p] EXCEPT !.idx = @ + 1]]
  /\ UNCHANGED <<l1Vars, lastProcessedBlock, timerVars, startCall, starts, applies,
                 l2Vars, faults>>
  /\ UNCHANGED <<stopped, harnessVars, sideVars, clientVars>>

\* getDomain rejected: processNewEvents throws out of the loop
PollGetDomainFail(p) ==
  /\ polls[p].pc = "getDomain"
  /\ CanFault
  /\ faults' = faults + 1
  /\ PollCatch
  /\ polls' = [polls EXCEPT ![p] = PollIdle]
  /\ UNCHANGED <<l1Vars, lastProcessedBlock, queue, timerVars, startCall, starts,
                 applies, l2Vars>>
  /\ UNCHANGED <<stopped, harnessVars, sideVars, clientVars>>

\* ---------------------------------------------------------- content store
\* a string is the sequence of its pieces, "" is the empty sequence
RecordTypes == {"A", "AAAA", "TXT", "MX"}

Str(s) == [obj |-> FALSE, str |-> s]
Mx(p, e) == [obj |-> TRUE, preference |-> p, exchange |-> e]
Many(type, vs) == [type |-> type, isArray |-> TRUE, values |-> vs]
\* a record type holding one value that is not an array
One(type, v) == [type |-> type, isArray |-> FALSE, values |-> <<v>>]

\* what JSON.parse gives for the document stored under a content hash: c1 holds
\* the record set {A: ["1.2.3.4"]} with ttl 3600, c2 a document without "records"
ContentStore(c) ==
  IF c = "c1"
  THEN [hasRecords |-> TRUE, records |-> <<Many("A", <<Str(<<"1.2.3.4">>)>>)>>,
        hasTtl |-> TRUE, ttl |-> 3600]
  ELSE [hasRecords |-> FALSE, records |-> <<>>, hasTtl |-> FALSE, ttl |-> 0]

\* contentHash.toString().substring(2, 10), read as a hexadecimal number:
\* c1 stands for 0x1111..., c2 for 0x2222..., the zero hash for 0x0000...
HashPrefix(c) == IF c = "c1" THEN 286331153 ELSE IF c = "c2" THEN 572662306 ELSE 0

\* parseInt(hash, 16) % 255
IpPart(c) == HashPrefix(c) % 255

\* the decimal rendering of the ip parts that occur
IpSuffix(n) == IF n = 68 THEN "68" ELSE IF n = 136 THEN "136" ELSE "0"

\* the fallback record set: A, AAAA, TXT of one value, MX of two objects
getMockRecordsFromHash(c) ==
  [hasRecords |-> TRUE,
   records |-> <<Many("A", <<Str(<<"192.168.1.", IpSuffix(IpPart(c))>>)>>),
                 Many("AAAA", <<Str(<<"2001:db8::", IpSuffix(IpPart(c))>>)>>),
                 Many("TXT", <<Str(<<"This is a demo record for hash ", c>>)>>),
                 Many("MX", <<Mx("10", <<"mail1.example-", c, ".eth">>),
                              Mx("20", <<"mail2.example-", c, ".eth">>)>>)>>,
   hasTtl |-> TRUE, ttl |-> 3600]

\* JSON.stringify of an object value
JSONstringify(v) ==
  <<"{\"preference\":", v.preference, ",\"exchange\":\"">> \o v.exchange \o <<"\"}">>

\* typeof value === 'object' ? JSON.stringify(value) : value
ValueString(v) == IF v.obj THEN JSONstringify(v) ELSE v.str

\* records.ttl || 3600: a document without ttl has ttl 0 here, and 0 is falsy too
TtlOf(records) == IF records.ttl = 0 THEN DefaultTtl ELSE records.ttl

RECURSIVE FlattenValues(_, _, _)
\* one (type, value, ttl) entry per value of one record type
FlattenValues(type, vs, ttl) ==
  IF vs = <<>> THEN <<>>
  ELSE <<[type |-> type, value |-> ValueString(Head(vs)), ttl |-> ttl]>>
       \o FlattenValues(type, Tail(vs), ttl)

RECURSIVE FlattenEntries(_, _)
\* the loop over Object.entries(records.records)
FlattenEntries(entries, ttl) ==
  IF entries = <<>> THEN <<>>
  ELSE FlattenValues(Head(entries).type, Head(entries).values, ttl)
       \o FlattenEntries(Tail(entries), ttl)

Flatten(records) == FlattenEntries(records.records, TtlOf(records))

Column(rows, f) == [i \in 1..Len(rows) |-> rows[i][f]]

\* ------------------------------------------------------------ L2 resolver
NoRecord == [value |-> <<>>, ttl |-> 0]

\* setRecord: store the record, list the type when it held no value before
setRecord(st, d, type, value, ttl) ==
  [records |-> [st.records EXCEPT ![d][type] = [value |-> value, ttl |-> ttl]],
   types |-> IF Len(st.records[d][type].value) > 0
             THEN st.types
             ELSE [st.types EXCEPT ![d] = Append(@, type)]]

RECURSIVE setBatchLoop(_, _, _, _, _, _)
setBatchLoop(st, d, types, values, ttls, i) ==
  IF i > Len(types) THEN st
  ELSE setBatchLoop(setRecord(st, d, types[i], values[i], ttls[i]), d, types, values, ttls, i + 1)

\* mutant of setBatchRecords: arrays of different lengths are written up to the
\* shortest
setBatchRecordsPartial(st, d, types, values, ttls) ==
  LET n == IF Len(values) < Len(types) THEN Len(values) ELSE Len(types)
      m == IF Len(ttls) < n THEN Len(ttls) ELSE n
  IN setBatchLoop(st, d, SubSeq(types, 1, m), values, ttls, 1)

\* setBatchRecords: reverts (no change) unless the three arrays agree in length
setBatchRecords(st, d, types, values, ttls) ==
  IF Len(types) = Len(values) /\ Len(types) = Len(ttls)
  THEN setBatchLoop(st, d, types, values, ttls, 1)
  ELSE st

\* ------------------------------------------------- startQueueProcessing()
\* mutant of RetryOrAbandon: item.retries <= this.maxRetries
RetryOrAbandonInclusive(item) ==
  IF item.retries <= maxRetries
  THEN /\ queue' = enqueue(queue, [item EXCEPT !.retries = @ + 1])
       /\ stats' = stats
  ELSE /\ queue' = queue
       /\ stats' = [stats EXCEPT !.errors = @ + 1]

\* mutant of RetryOrAbandon: the abandoned item is not counted in stats.errors
RetryOrAbandonUncounted(item) ==
  IF item.retries < maxRetries
  THEN /\ queue' = enqueue(queue, [item EXCEPT !.retries = @ + 1])
       /\ stats' = stats
  ELSE /\ queue' = queue
       /\ stats' = stats

\* mutant of RetryOrAbandon: the retried item is put at the front of the queue
RetryOrAbandonFront(item) ==
  IF item.retries < maxRetries
  THEN /\ queue' = <<[item EXCEPT !.retries = @ + 1]>> \o queue
       /\ stats' = stats
  ELSE /\ queue' = queue
       /\ stats' = [stats EXCEPT !.errors = @ + 1]

\* the catch of the apply callback: retry or abandon
RetryOrAbandon(item) ==
  IF item.retries < maxRetries
  THEN /\ queue' = enqueue(queue, [item EXCEPT !.retries = @ + 1])
       /\ stats' = stats
  ELSE /\ queue' = queue
       /\ stats' = [stats EXCEPT !.errors = @ + 1]

\* the apply timer fires on an empty queue: nothing happens
ApplyTickEmpty ==
  /\ TimerSet("apply")
  /\ isEmpty(queue)
  /\ UNCHANGED vars

\* mutant of ApplyTick: the tick also drops the item behind the one it takes
ApplyTickTwo(a) ==
  /\ TimerSet("apply")
  /\ ~isEmpty(queue)
  /\ Lowest(applies, a)
  /\ applies' = [applies EXCEPT ![a] = [ApplyIdle EXCEPT !.pc = "ipfs", !.item = Front(queue)]]
  /\ queue' = IF Len(queue) > 1 THEN dequeue(dequeue(queue)) ELSE dequeue(queue)
  /\ UNCHANGED <<l1Vars, lastProcessedBlock, stats, timerVars, startCall, starts,
                 polls, l2Vars, faults>>
  /\ UNCHANGED <<stopped, harnessVars, sideVars, clientVars>>

\* the apply timer fires: one item is dequeued and processDomainUpdate awaits
\* getRecordsFromIPFS
ApplyTick(a) ==
  /\ TimerSet("apply")
  /\ ~isEmpty(queue)
  /\ Lowest(applies, a)
  /\ applies' = [applies EXCEPT ![a] = [ApplyIdle EXCEPT !.pc = "ipfs", !.item = Front(queue)]]
  /\ queue' = dequeue(queue)
  /\ UNCHANGED <<l1Vars, lastProcessedBlock, stats, timerVars, startCall, starts,
                 polls, l2Vars, faults>>
  /\ UNCHANGED <<stopped, harnessVars, sideVars, clientVars>>

\* the rest of processDomainUpdate up to its next await, for a fetched record set
Prepare(a, records) ==
  LET rows == Flatten(records)
  IN applies' = [applies EXCEPT ![a] =
       IF rows = <<>> THEN ApplyIdle
       ELSE [applies[a] EXCEPT !.pc = "submit",
                                !.recordTypes = Column(rows, "type"),
                                !.values = Column(rows, "value"),
                                !.ttls = Column(rows, "ttl")]]

\* the content store answered: a document without records ends the apply,
\* a record set is flattened and the batch write is sent
ApplyFetched(a) ==
  /\ applies[a].pc = "ipfs"
  /\ LET records == ContentStore(applies[a].item.contentHash)
     IN IF ~records.hasRecords
        THEN /\ stats' = [stats EXCEPT !.ipfsRetrievalErrors = @ + 1]
             /\ applies' = [applies EXCEPT ![a] = ApplyIdle]
        ELSE /\ Prepare(a, records)
             /\ UNCHANGED stats
  /\ UNCHANGED <<l1Vars, lastProcessedBlock, queue, timerVars, startCall, starts,
                 polls, l2Vars, faults>>
  /\ UNCHANGED <<stopped, harnessVars, sideVars, clientVars>>

\* mutant of ApplyFetchFail: the failed fetch aborts the apply, the error is
\* counted and rethrown to the callback
ApplyFetchFailAborts(a) ==
  /\ applies[a].pc = "ipfs"
  /\ CanFault
  /\ faults' = faults + 1
  /\ stats' = [stats EXCEPT !.ipfsRetrievalErrors = @ + 1, !.l2SubmissionErrors = @ + 1]
  /\ applies' = [applies EXCEPT ![a].pc = "rethrown"]
  /\ UNCHANGED <<l1Vars, lastProcessedBlock, queue, timerVars, startCall, starts, polls,
                 l2Vars>>
  /\ UNCHANGED <<stopped, harnessVars, sideVars, clientVars>>

\* the content store failed: the catch of getRecordsFromIPFS counts the error and
\* returns the mock record set to the await of processDomainUpdate
ApplyFetchFail(a) ==
  /\ applies[a].pc = "ipfs"
  /\ CanFault
  /\ faults' = faults + 1
  /\ stats' = [stats EXCEPT !.ipfsRetrievalErrors = @ + 1]
  /\ applies' = [applies EXCEPT ![a].pc = "mock"]
  /\ UNCHANGED <<l1Vars, lastProcessedBlock, queue, timerVars, startCall, starts,
                 polls, l2Vars>>
  /\ UNCHANGED <<stopped, harnessVars, sideVars, clientVars>>

\* processDomainUpdate resumes with the mock record set: it is flattened and the
\* batch write is sent
ApplyMock(a) ==
  /\ applies[a].pc = "mock"
  /\ Prepare(a, getMockRecordsFromHash(applies[a].item.contentHash))
  /\ UNCHANGED <<l1Vars, lastProcessedBlock, queue, stats, timerVars, startCall, starts,
                 polls, l2Vars, faults>>
  /\ UNCHANGED <<stopped, harnessVars, sideVars, clientVars>>

\* the batch write was accepted and mined: processDomainUpdate awaits tx.wait
ApplySubmitted(a) ==
  /\ applies[a].pc = "submit"
  /\ LET st == setBatchRecords([records |-> l2Records, types |-> l2Types],
                               applies[a].item.domainHash, applies[a].recordTypes,
                               applies[a].values, applies[a].ttls)
     IN /\ l2Records' = st.records
        /\ l2Types' = st.types
  /\ applies' = [applies EXCEPT ![a].pc = "wait"]
  /\ UNCHANGED <<l1Vars, lastProcessedBlock, queue, stats, timerVars, startCall,
                 starts, polls, faults>>
  /\ UNCHANGED <<stopped, harnessVars, sideVars, clientVars>>

\* the confirmations arrived
ApplyConfirmed(a) ==
  /\ applies[a].pc = "wait"
  /\ stats' = [stats EXCEPT !.updatesSynced = @ + 1]
  /\ applies' = [applies EXCEPT ![a] = ApplyIdle]
  /\ UNCHANGED <<l1Vars, lastProcessedBlock, queue, timerVars, startCall, starts,
                 polls, l2Vars, faults>>
  /\ UNCHANGED <<stopped, harnessVars, sideVars, clientVars>>

\* mutant of ApplyFail: processDomainUpdate counts the error and returns, the
\* callback's catch never sees it
ApplyFailSwallowed(a) ==
  /\ applies[a].pc \in {"submit", "wait"}
  /\ CanFault
  /\ faults' = faults + 1
  /\ stats' = [stats EXCEPT !.l2SubmissionErrors = @ + 1]
  /\ applies' = [applies EXCEPT ![a] = ApplyIdle]
  /\ UNCHANGED <<l1Vars, lastProcessedBlock, queue, timerVars, startCall, starts,
                 polls, l2Vars>>
  /\ UNCHANGED <<stopped, harnessVars, sideVars, clientVars>>

\* the batch write or the wait for its confirmations rejected: the catch of
\* processDomainUpdate counts the error and rethrows it; the rejection travels
\* through the await of processQueueItem to the await of the callback
ApplyFail(a) ==
  /\ applies[a].pc \in {"submit", "wait"}
  /\ CanFault
  /\ faults' = faults + 1
  /\ stats' = [stats EXCEPT !.l2SubmissionErrors = @ + 1]
  /\ applies' = [applies EXCEPT ![a].pc = "rethrown"]
  /\ UNCHANGED <<l1Vars, lastProcessedBlock, queue, timerVars, startCall, starts,
                 polls, l2Vars>>
  /\ UNCHANGED <<stopped, harnessVars, sideVars, clientVars>>

\* mutant of ApplyCatch: the rejection escapes the callback and ends the interval
ApplyCatchEscapes(a) ==
  /\ applies[a].pc = "rethrown"
  /\ timers' = {t \in timers : t.kind # "apply"}
  /\ applies' = [applies EXCEPT ![a] = ApplyIdle]
  /\ UNCHANGED <<l1Vars, lastProcessedBlock, queue, stats, pollingInterval,
                 timersCreated, startCall, starts, polls, l2Vars, faults>>
  /\ UNCHANGED <<stopped, harnessVars, sideVars, clientVars>>

\* the rejection reached the callback: its catch retries or abandons the item
ApplyCatch(a) ==
  /\ applies[a].pc = "rethrown"
  /\ RetryOrAbandon(applies[a].item)
  /\ applies' = [applies EXCEPT ![a] = ApplyIdle]
  /\ UNCHANGED <<l1Vars, lastProcessedBlock, timerVars, startCall, starts, polls,
                 l2Vars, faults>>
  /\ UNCHANGED <<stopped, harnessVars, sideVars, clientVars>>

\* ------------------------------------------------- the constructed bridge
\* the chain when the bridge is constructed: no domain is registered
ChainInit ==
  /\ l1Height \in InitHeights
  /\ l1Events = <<>>
  /\ l1Domains = [d \in Domains |-> [owner |-> FALSE, contentHash |-> HashZero]]
  /\ l1Expiry = [d \in Domains |-> 0]
  /\ registrationFee = InitialFee
  /\ renewalPeriod = InitialPeriod

BridgeInit ==
  /\ lastProcessedBlock = 0
  /\ queue = <<>>
  /\ stats = ZeroStats
  /\ pollingInterval = NoTimer
  /\ timers = {}
  /\ timersCreated = 0
  /\ startCall = StartIdle
  /\ starts = 0
  /\ polls = [p \in 1..MaxPolls |-> PollIdle]
  /\ applies = [a \in 1..MaxApplies |-> ApplyIdle]
  /\ faults = 0
  /\ stopped = FALSE

\* the freshly deployed resolver
LedgerEmpty ==
  /\ l2Records = [d \in Domains |-> [t \in RecordTypes |-> NoRecord]]
  /\ l2Types = [d \in Domains |-> <<>>]

NoDocument == [hasRecords |-> FALSE, records |-> <<>>, hasTtl |-> FALSE, ttl |-> 0]
NoBatch == [recordTypes |-> <<>>, values |-> <<>>, ttls |-> <<>>, sent |-> 0, accepted |-> 0]

\* no task is applied outside the bridge's own apply ticks
HarnessIdle ==
  /\ fetched = NoDocument
  /\ applyCount = 0
  /\ ledgerOnce = [records |-> [t \in RecordTypes |-> NoRecord], types |-> <<>>]
  /\ batch = NoBatch
  /\ runs = <<>>

\* no client is constructed
ClientIdle ==
  /\ now = 0
  /\ cache = <<>>
  /\ clientStats = <<>>
  /\ config = <<>>
  /\ call = <<>>
  /\ calls = 0
  /\ ticks = 0

\* getStats() has not been called; the resolver was deployed with the bridge's
\* address and has received no transaction
SideIdle ==
  /\ report = <<>>
  /\ bridgeAddress = "bridge"
  /\ txs = 0

Init == ChainInit /\ BridgeInit /\ LedgerEmpty /\ HarnessIdle /\ ClientIdle /\ SideIdle

Next ==
  \/ L1Step
  \/ StartBegin
  \/ StartResume
  \/ StartFail
  \/ \E p \in 1..MaxPolls : PollTick(p)
  \/ \E p \in 1..MaxPolls : PollNoNewBlock(p)
  \/ \E p \in 1..MaxPolls : PollQueryUpdates(p)
  \/ \E p \in 1..MaxPolls : PollQueryRegistered(p)
  \/ \E p \in 1..MaxPolls : PollQueryFail(p)
  \/ \E p \in 1..MaxPolls : PollAdvance(p)
  \/ \E p \in 1..MaxPolls : PollGetDomain(p)
  \/ \E p \in 1..MaxPolls : PollGetDomainFail(p)
  \/ ApplyTickEmpty
  \/ \E a \in 1..MaxApplies : ApplyTick(a)
  \/ \E a \in 1..MaxApplies : ApplyFetched(a)
  \/ \E a \in 1..MaxApplies : ApplyFetchFail(a)
  \/ \E a \in 1..MaxApplies : ApplyMock(a)
  \/ \E a \in 1..MaxApplies : ApplySubmitted(a)
  \/ \E a \in 1..MaxApplies : ApplyConfirmed(a)
  \/ \E a \in 1..MaxApplies : ApplyFail(a)
  \/ \E a \in 1..MaxApplies : ApplyCatch(a)

Spec == Init /\ [][Next]_vars

\* ------------------------------------- one task applied to a fast ledger
\* applications of the task
MaxRuns == 2
\* values of one record type in a fetched document
MaxValues == 2

\* a value is the empty string, a string or an object
SampleValues == {Str(<<>>), Str(<<"1.2.3.4">>), Mx("10", <<"mx.example">>)}
SampleTypes == {"A", "MX"}
SampleTtl == 300

SeqsUpTo(S, n) == UNION {[1..k -> S] : k \in 0..n}

SampleEntries(t) ==
  {Many(t, vs) : vs \in SeqsUpTo(SampleValues, MaxValues)} \cup {One(t, v) : v \in SampleValues}

\* record sets of no, one or two record types (the keys of an object are distinct)
SampleRecords ==
  {<<>>}
  \cup {<<e>> : e \in UNION {SampleEntries(t) : t \in SampleTypes}}
  \cup UNION {{<<e, f>> : e \in SampleEntries(t), f \in SampleEntries(u)} :
              <<t, u>> \in {x \in SampleTypes \X SampleTypes : x[1] # x[2]}}

\* the documents the content store may return: a record set without ttl, with
\* ttl 0 or with a positive ttl, or a document without "records"
SampleDocs ==
  {[hasRecords |-> TRUE, records |-> r, hasTtl |-> h, ttl |-> t] :
     r \in SampleRecords,
     <<h, t>> \in {<<FALSE, 0>>, <<TRUE, 0>>, <<TRUE, SampleTtl>>}}
  \cup {NoDocument}

\* the fast ledger before the task: empty, or holding an A record of an earlier sync
SampleLedgers ==
  {[records |-> [t \in RecordTypes |-> NoRecord], types |-> <<>>],
   [records |-> [t \in RecordTypes |->
                   IF t = "A" THEN [value |-> <<"9.9.9.9">>, ttl |-> 60] ELSE NoRecord],
    types |-> <<"A">>]}

\* a call of processDomainUpdate: where it stands, and the arrays it built
RunIdle == [pc |-> "idle", domainHash |-> "", recordTypes |-> <<>>, values |-> <<>>,
            ttls |-> <<>>]

\* what the calls of processDomainUpdate leave alone
RunFrame ==
  UNCHANGED <<l1Vars, lastProcessedBlock, queue, timerVars, startCall, starts,
              polls, applies, stopped, fetched, clientVars, sideVars>>

\* processDomainUpdate(domainHash, contentHash) is called: it awaits
\* getRecordsFromIPFS; nothing keeps a second call from starting meanwhile
processDomainUpdate(d) ==
  /\ applyCount < MaxRuns
  /\ applyCount' = applyCount + 1
  /\ runs' = [runs EXCEPT ![applyCount + 1] = [RunIdle EXCEPT !.pc = "ipfs", !.domainHash = d]]
  /\ UNCHANGED <<stats, l2Vars, faults, ledgerOnce, batch>>
  /\ RunFrame

\* the rest of the call up to its next await, for a fetched record set: the
\* arrays are built and, unless they are empty, setBatchRecords is sent
RunPrepare(k, records) ==
  LET rows == Flatten(records)
  IN IF rows = <<>>
     THEN /\ runs' = [runs EXCEPT ![k].pc = "returned"]
          /\ UNCHANGED batch
     ELSE /\ runs' = [runs EXCEPT ![k].pc = "submit",
                                  ![k].recordTypes = Column(rows, "type"),
                                  ![k].values = Column(rows, "value"),
                                  ![k].ttls = Column(rows, "ttl")]
          /\ batch' = [batch EXCEPT !.recordTypes = Column(rows, "type"),
                                    !.values = Column(rows, "value"),
                                    !.ttls = Column(rows, "ttl"),
                                    !.sent = @ + 1]

\* the content store returned the document `fetched`
RunFetched(k) ==
  /\ runs[k].pc = "ipfs"
  /\ IF ~fetched.hasRecords
     THEN /\ stats' = [stats EXCEPT !.ipfsRetrievalErrors = @ + 1]
          /\ runs' = [runs EXCEPT ![k].pc = "returned"]
          /\ UNCHANGED batch
     ELSE /\ RunPrepare(k, fetched)
          /\ UNCHANGED stats
  /\ UNCHANGED <<applyCount, l2Vars, faults, ledgerOnce>>
  /\ RunFrame

\* the content store failed: the catch of getRecordsFromIPFS counts the error and
\* returns the mock record set
RunFetchFail(k) ==
  /\ runs[k].pc = "ipfs"
  /\ CanFault
  /\ faults' = faults + 1
  /\ stats' = [stats EXCEPT !.ipfsRetrievalErrors = @ + 1]
  /\ runs' = [runs EXCEPT ![k].pc = "mock"]
  /\ UNCHANGED <<applyCount, l2Vars, ledgerOnce, batch>>
  /\ RunFrame

\* the call resumes with the mock record set of the task's content hash, c1
RunMock(k) ==
  /\ runs[k].pc = "mock"
  /\ RunPrepare(k, getMockRecordsFromHash("c1"))
  /\ UNCHANGED <<applyCount, stats, l2Vars, faults, ledgerOnce>>
  /\ RunFrame

\* the batch write was accepted and mined: the call awaits tx.wait
RunSubmitted(k) ==
  /\ runs[k].pc = "submit"
  /\ LET d == runs[k].domainHash
         st == setBatchRecords([records |-> l2Records, types |-> l2Types], d,
                               runs[k].recordTypes, runs[k].values, runs[k].ttls)
     IN /\ l2Records' = st.records
        /\ l2Types' = st.types
        /\ ledgerOnce' = IF batch.accepted = 0
                         THEN [records |-> st.records[d], types |-> st.types[d]]
                         ELSE ledgerOnce
  /\ batch' = [batch EXCEPT !.accepted = @ + 1]
  /\ runs' = [runs EXCEPT ![k].pc = "wait"]
  /\ UNCHANGED <<applyCount, stats, faults>>
  /\ RunFrame

\* the confirmations arrived: the update is counted and the call returns
RunConfirmed(k) ==
  /\ runs[k].pc = "wait"
  /\ stats' = [stats EXCEPT !.updatesSynced = @ + 1]
  /\ runs' = [runs EXCEPT ![k].pc = "returned"]
  /\ UNCHANGED <<applyCount, l2Vars, faults, ledgerOnce, batch>>
  /\ RunFrame

\* the batch write or the wait for its confirmations rejected: the catch counts
\* the error and the call throws to its caller
RunFail(k) ==
  /\ runs[k].pc \in {"submit", "wait"}
  /\ CanFault
  /\ faults' = faults + 1
  /\ stats' = [stats EXCEPT !.l2SubmissionErrors = @ + 1]
  /\ runs' = [runs EXCEPT ![k].pc = "thrown"]
  /\ UNCHANGED <<applyCount, l2Vars, ledgerOnce, batch>>
  /\ RunFrame

InitLedger ==
  /\ ChainInit
  /\ BridgeInit
  /\ ClientIdle
  /\ SideIdle
  /\ \E l \in SampleLedgers :
       /\ l2Records = [d \in Domains |-> l.records]
       /\ l2Types = [d \in Domains |-> l.types]
       /\ ledgerOnce = l
  /\ fetched \in SampleDocs
  /\ applyCount = 0
  /\ batch = NoBatch
  /\ runs = [k \in 1..MaxRuns |-> RunIdle]

NextLedger ==
  \/ \E d \in Domains : processDomainUpdate(d)
  \/ \E k \in 1..MaxRuns : RunFetched(k)
  \/ \E k \in 1..MaxRuns : RunFetchFail(k)
  \/ \E k \in 1..MaxRuns : RunMock(k)
  \/ \E k \in 1..MaxRuns : RunSubmitted(k)
  \/ \E k \in 1..MaxRuns : RunConfirmed(k)
  \/ \E k \in 1..MaxRuns : RunFail(k)

SpecLedger == InitLedger /\ [][NextLedger]_vars

\* ============================================================ DDNSClient
\* calls of resolveDomain and resolveBatch during a run
MaxCalls == 3
\* advances of the clock during a run
MaxTicks == 1
\* resolveBatch is called among the first MaxBatchCalls calls of a run
MaxBatchCalls == 2

\* Date.now() when the client is constructed, in milliseconds
ClockStart == 1000000
\* the clock advances by a second, or by a millisecond less or more
Jumps == {999, 1000, 1001}
\* expiry dates of a registration, in seconds: the second of ClockStart, and far
\* ahead
ExpiryDates == {1000, 10000}
\* the record types a query asks for; no record set holds a CNAME
QueryTypes == {"A", "CNAME"}
CacheKeys == Domains \X QueryTypes

\* a value is null, undefined, a string or an object of a record set
Null == [null |-> TRUE, undefined |-> FALSE, obj |-> FALSE, str |-> <<>>,
         preference |-> "", exchange |-> <<>>]
Undefined == [Null EXCEPT !.null = FALSE, !.undefined = TRUE]
Val(s) == [Null EXCEPT !.null = FALSE, !.str = s]
Obj(v) == [Null EXCEPT !.null = FALSE, !.obj = TRUE, !.preference = v.preference,
                       !.exchange = v.exchange]
\* the truthiness of result.value
Truthy(v) == ~v.null /\ ~v.undefined /\ (v.obj \/ Len(v.str) > 0)

\* useCache, preferL2 and verifyWithL1 as the constructor reads them; verification
\* only takes place under preferL2, so verifyWithL1 is set only with the defaults
Configs == {c \in [useCache : BOOLEAN, preferL2 : BOOLEAN, verifyWithL1 : BOOLEAN] :
              c.verifyWithL1 => (c.useCache /\ c.preferL2)}
Options == [forceL1 : BOOLEAN, forceL2 : BOOLEAN, skipCache : BOOLEAN, verify : BOOLEAN]

ZeroClientStats == [totalQueries |-> 0, l1Queries |-> 0, l2Queries |-> 0, cacheHits |-> 0,
                    l1LatencySum |-> 0, l2LatencySum |-> 0, l1Errors |-> 0, l2Errors |-> 0]

\* a resolution result; contentHash is "undefined" where the object has no such member
Result(v, ttl, source, h, err) ==
  [value |-> v, ttl |-> ttl, source |-> source, contentHash |-> h, error |-> err]
NoResult == Result(Null, 0, "none", "undefined", "")

NoEntry == [present |-> FALSE, value |-> Null, ttl |-> 0, source |-> "none",
            contentHash |-> "undefined", error |-> "", timestamp |-> 0]
\* { ...result, timestamp: Date.now() }
Entry(res, t) == [present |-> TRUE, value |-> res.value, ttl |-> res.ttl,
                  source |-> res.source, contentHash |-> res.contentHash,
                  error |-> res.error, timestamp |-> t]

CallIdle == [pc |-> "idle", domain |-> "", type |-> "", types |-> <<>>,
             opts |-> [forceL1 |-> FALSE, forceL2 |-> FALSE, skipCache |-> FALSE,
                       verify |-> FALSE],
             ctx |-> "", startTime |-> 0, tierStart |-> 0, held |-> NoResult,
             contentHash |-> HashZero, ret |-> NoResult, result |-> NoResult]

\* the call is over: its locals are gone, the caller holds the result
Returned(c, res) ==
  [CallIdle EXCEPT !.pc = "returned", !.domain = c.domain, !.type = c.type,
                   !.types = c.types, !.result = res]

\* _resolveFromL1 is entered: l1Queries++, then it awaits getDomain
EnterL1(c, st, ctx) ==
  /\ call' = [c EXCEPT !.pc = "l1", !.ctx = ctx, !.tierStart = now]
  /\ clientStats' = [st EXCEPT !.l1Queries = @ + 1]

\* _resolveFromL2 is entered: l2Queries++, then it awaits getRecord
EnterL2(c, st, ctx) ==
  /\ call' = [c EXCEPT !.pc = "l2", !.ctx = ctx, !.tierStart = now]
  /\ clientStats' = [st EXCEPT !.l2Queries = @ + 1]

\* mutant of UseCache: skipCache is not looked at
UseCacheAlways(opts) == config.useCache

\* this.useCache && !opts.skipCache
UseCache(opts) == config.useCache /\ ~opts.skipCache

\* mutant of CacheLive: the entry is still returned at timestamp + ttl * 1000
CacheLiveInclusive(e) == e.present /\ e.timestamp + (e.ttl * 1000) >= now

\* the cache check: the entry is returned while timestamp + ttl * 1000 > Date.now()
CacheLive(e) == e.present /\ e.timestamp + (e.ttl * 1000) > now

\* resolveDomain(domainName, recordType, options) up to its first await
resolveDomain(d, t, o) ==
  /\ calls < MaxCalls
  /\ call.pc \in {"idle", "returned"}
  /\ calls' = calls + 1
  /\ LET st == [clientStats EXCEPT !.totalQueries = @ + 1]
         opts == [o EXCEPT !.verify = o.verify \/ config.verifyWithL1]
         c == [CallIdle EXCEPT !.domain = d, !.type = t, !.opts = opts, !.startTime = now]
         e == cache[<<d, t>>]
     IN IF UseCache(opts) /\ CacheLive(e)
        THEN /\ clientStats' = [st EXCEPT !.cacheHits = @ + 1]
             /\ call' = Returned(c, Result(e.value, e.ttl, "cache", e.contentHash, e.error))
        ELSE IF opts.forceL1 THEN EnterL1(c, st, "direct")
             ELSE IF opts.forceL2 THEN EnterL2(c, st, "forced")
             ELSE IF config.preferL2 THEN EnterL2(c, st, "prefer")
             ELSE EnterL1(c, st, "direct")
  /\ UNCHANGED <<l1Vars, l2Vars, faults, bridgeVars, harnessVars, sideVars>>
  /\ UNCHANGED <<now, cache, config, ticks>>

\* mutant of ReturnError: the error leaves resolveDomain uncaught
ReturnErrorThrows(c) == call' = [c EXCEPT !.pc = "thrown"]

\* the outer catch of resolveDomain: a structured error result
ReturnError(c) ==
  call' = Returned(c, Result(Null, 0, "error", "undefined", "rpc error"))

\* mutant of Finish: the result is cached whatever its value
FinishUnfiltered(c, res) ==
  /\ cache' = IF config.useCache
              THEN [cache EXCEPT ![<<c.domain, c.type>>] = Entry(res, now)]
              ELSE cache
  /\ call' = Returned(c, res)

\* the end of the try block: the result is cached when the cache is enabled and
\* the value is truthy, and returned
Finish(c, res) ==
  /\ cache' = IF config.useCache /\ Truthy(res.value)
              THEN [cache EXCEPT ![<<c.domain, c.type>>] = Entry(res, now)]
              ELSE cache
  /\ call' = Returned(c, res)

\* l2Resolver.getRecord(domainHash, recordType): a type never set reads as empty
getRecord(d, t) == IF t \in RecordTypes THEN l2Records[d][t] ELSE NoRecord

\* getRecord resolved: _resolveFromL2 adds the latency to l2LatencySum and
\* returns its result to the await of resolveDomain
ResolveL2Done ==
  /\ call.pc = "l2"
  /\ LET r == getRecord(call.domain, call.type)
         res == IF Len(r.value) = 0 THEN Result(Null, 0, "l2", "undefined", "")
                ELSE Result(Val(r.value), r.ttl, "l2", "undefined", "")
     IN call' = [call EXCEPT !.pc = "l2ret", !.ret = res]
  /\ clientStats' = [clientStats EXCEPT !.l2LatencySum = @ + (now - call.tierStart)]
  /\ UNCHANGED <<l1Vars, l2Vars, faults, bridgeVars, harnessVars, sideVars>>
  /\ UNCHANGED <<now, cache, config, calls, ticks>>

\* resolveDomain resumes with the result of _resolveFromL2: under the default
\* policy a verified query with a truthy value goes on to _resolveFromL1, every
\* other query caches and returns
ResumeL2 ==
  /\ call.pc = "l2ret"
  /\ LET res == call.ret
         c == [call EXCEPT !.ret = NoResult]
     IN IF call.ctx = "prefer" /\ call.opts.verify /\ Truthy(res.value)
        THEN /\ EnterL1([c EXCEPT !.held = res], clientStats, "verify")
             /\ UNCHANGED cache
        ELSE /\ Finish(c, res)
             /\ UNCHANGED clientStats
  /\ UNCHANGED <<l1Vars, l2Vars, faults, bridgeVars, harnessVars, sideVars>>
  /\ UNCHANGED <<now, config, calls, ticks>>

\* mutant of FallsBack: every failed L2 read is followed by an L1 read
FallsBackAlways(c) == TRUE

\* mutant of FallsBack: no failed L2 read is followed by an L1 read
FallsBackNever(c) == FALSE

\* the try around the L2 read of the default policy: its catch falls back to L1
FallsBack(c) == c.ctx = "prefer"

\* getRecord rejected: the catch of _resolveFromL2 does l2Errors++ and rethrows
\* the error to the await of resolveDomain
ResolveL2Fail ==
  /\ call.pc = "l2"
  /\ CanFault
  /\ faults' = faults + 1
  /\ clientStats' = [clientStats EXCEPT !.l2Errors = @ + 1]
  /\ call' = [call EXCEPT !.pc = "l2thrown"]
  /\ UNCHANGED <<l1Vars, l2Vars, bridgeVars, harnessVars, sideVars>>
  /\ UNCHANGED <<now, cache, config, calls, ticks>>

\* the error of _resolveFromL2 reaches resolveDomain: the default policy catches
\* it and enters _resolveFromL1, a forced L2 query ends in the outer catch
CatchL2 ==
  /\ call.pc = "l2thrown"
  /\ IF FallsBack(call)
     THEN EnterL1(call, clientStats, "fallback")
     ELSE ReturnError(call) /\ UNCHANGED clientStats
  /\ UNCHANGED <<l1Vars, l2Vars, faults, bridgeVars, harnessVars, sideVars>>
  /\ UNCHANGED <<now, cache, config, calls, ticks>>

\* mutant of Supersedes: the fast result is kept whatever the references
SupersedesNever(l1Result, result) == FALSE

\* l1Result.contentHash !== result.contentHash
Supersedes(l1Result, result) == l1Result.contentHash # result.contentHash

\* _resolveFromL1 returned res to resolveDomain
AfterL1(c, res) ==
  IF c.ctx = "verify"
  THEN Finish(c, IF Supersedes(res, c.held) THEN res ELSE c.held)
  ELSE Finish(c, res)

\* mutant of Unregistered: the owner is not looked at
UnregisteredNever(rec) == FALSE

\* owner === ethers.constants.AddressZero
Unregistered(rec) == ~rec.owner

\* getDomain resolved: an unregistered or an expired domain gives an empty
\* result, otherwise _getRecordsFromIPFS is awaited
ResolveL1Domain ==
  /\ call.pc = "l1"
  /\ LET rec == l1Domains[call.domain]
     IN IF Unregistered(rec)
        THEN /\ AfterL1(call, Result(Null, 0, "l1", "null", ""))
             /\ UNCHANGED clientStats
        ELSE IF l1Expiry[call.domain] < now \div 1000
        THEN /\ AfterL1(call, Result(Null, 0, "l1", rec.contentHash, "Domain expired"))
             /\ UNCHANGED clientStats
        ELSE /\ call' = [call EXCEPT !.pc = "ipfs", !.contentHash = rec.contentHash]
             /\ UNCHANGED <<clientStats, cache>>
  /\ UNCHANGED <<l1Vars, l2Vars, faults, bridgeVars, harnessVars, sideVars>>
  /\ UNCHANGED <<now, config, calls, ticks>>

\* getDomain rejected: the catch of _resolveFromL1 does l1Errors++ and rethrows
\* the error to the await of resolveDomain
ResolveL1Fail ==
  /\ call.pc = "l1"
  /\ CanFault
  /\ faults' = faults + 1
  /\ clientStats' = [clientStats EXCEPT !.l1Errors = @ + 1]
  /\ call' = [call EXCEPT !.pc = "l1thrown"]
  /\ UNCHANGED <<l1Vars, l2Vars, bridgeVars, harnessVars, sideVars>>
  /\ UNCHANGED <<now, cache, config, calls, ticks>>

\* the error of _resolveFromL1 reaches resolveDomain. Thrown by the verifying
\* read it is caught by the default policy's catch, which enters _resolveFromL1
\* again; otherwise it ends in the outer catch
CatchL1 ==
  /\ call.pc = "l1thrown"
  /\ IF call.ctx = "verify"
     THEN EnterL1(call, clientStats, "fallback")
     ELSE ReturnError(call) /\ UNCHANGED clientStats
  /\ UNCHANGED <<l1Vars, l2Vars, faults, bridgeVars, harnessVars, sideVars>>
  /\ UNCHANGED <<now, cache, config, calls, ticks>>

\* a value of a record set as the client hands it on
RecordValue(v) == IF v.obj THEN Obj(v) ELSE Val(v.str)

\* the truthiness of records.records[recordType]: an array is truthy even when
\* empty, a string unless it is empty, an object always
RecordDataTruthy(e) == e.isArray \/ e.values[1].obj \/ Len(e.values[1].str) > 0

\* records.records[recordType] is truthy
RECURSIVE HasRecordData(_, _)
HasRecordData(entries, t) ==
  IF entries = <<>> THEN FALSE
  ELSE IF Head(entries).type = t THEN RecordDataTruthy(Head(entries))
       ELSE HasRecordData(Tail(entries), t)

\* recordValue: null unless records.records[recordType] is truthy, then the
\* first element of an array (undefined when it is empty) or the value itself
RECURSIVE Project(_, _)
Project(entries, t) ==
  IF entries = <<>> THEN Null
  ELSE IF Head(entries).type = t
       THEN (IF ~RecordDataTruthy(Head(entries)) THEN Null
             ELSE IF ~Head(entries).isArray THEN RecordValue(Head(entries).values[1])
             ELSE IF Head(entries).values = <<>> THEN Undefined
             ELSE RecordValue(Head(entries).values[1]))
       ELSE Project(Tail(entries), t)

\* recordTTL: 0 unless records.records[recordType] is truthy, then records.ttl || 3600
ProjectTtl(records, t) ==
  IF records.hasRecords /\ HasRecordData(records.records, t) THEN TtlOf(records) ELSE 0

\* _getRecordsFromIPFS resolved with the mock record set of the content hash:
\* the requested type is projected, the latency is added to l1LatencySum and
\* _resolveFromL1 returns its result to the await of resolveDomain
ResolveL1Records ==
  /\ call.pc = "ipfs"
  /\ LET records == getMockRecordsFromHash(call.contentHash)
         v == IF records.hasRecords THEN Project(records.records, call.type) ELSE Null
         res == Result(v, ProjectTtl(records, call.type), "l1", call.contentHash, "")
     IN call' = [call EXCEPT !.pc = "l1ret", !.ret = res]
  /\ clientStats' = [clientStats EXCEPT !.l1LatencySum = @ + (now - call.tierStart)]
  /\ UNCHANGED <<l1Vars, l2Vars, faults, bridgeVars, harnessVars, sideVars>>
  /\ UNCHANGED <<now, cache, config, calls, ticks>>

\* resolveDomain resumes with the result of _resolveFromL1
ResumeL1 ==
  /\ call.pc = "l1ret"
  /\ AfterL1([call EXCEPT !.ret = NoResult], call.ret)
  /\ UNCHANGED clientStats
  /\ UNCHANGED <<l1Vars, l2Vars, faults, bridgeVars, harnessVars, sideVars>>
  /\ UNCHANGED <<now, config, calls, ticks>>

\* time passes
Tick(dt) ==
  /\ ticks < MaxTicks
  /\ ticks' = ticks + 1
  /\ now' = now + dt
  /\ UNCHANGED <<l1Vars, l2Vars, faults, bridgeVars, harnessVars, sideVars>>
  /\ UNCHANGED <<cache, clientStats, config, call, calls>>

\* the fast ledger a client may find: nothing for the domain, or an A record
\* that lives one second
ClientLedgers ==
  {[t \in RecordTypes |-> NoRecord],
   [t \in RecordTypes |-> IF t = "A" THEN [value |-> <<"5.6.7.8">>, ttl |-> 1] ELSE NoRecord]}

\* the second before the client's clock starts, when the registry's
\* transactions were mined
RegisteredAt == ClockStart \div 1000 - 1

\* the registry a client may find: as deployed, or with the renewal period set to
\* x - RegisteredAt, every domain registered in the next block, which gives the
\* expiry date x, and given the content c1 in the block after
ClientChains ==
  {[height |-> h, events |-> <<>>,
    domains |-> [d \in Domains |-> [owner |-> FALSE, contentHash |-> HashZero]],
    expiry |-> [d \in Domains |-> 0], period |-> InitialPeriod] :
     h \in InitHeights}
  \cup {[height |-> h + 3,
         events |-> <<ChangedEvent("RenewalPeriodChanged", h + 1, x - RegisteredAt),
                      RegisteredEvent("d1", h + 2, x), UpdatedEvent("d1", "c1", h + 3)>>,
         domains |-> [d \in Domains |-> [owner |-> TRUE, contentHash |-> "c1"]],
         expiry |-> [d \in Domains |-> x], period |-> x - RegisteredAt] :
          h \in InitHeights, x \in ExpiryDates}

InitClient ==
  /\ \E ch \in ClientChains :
       /\ l1Height = ch.height
       /\ l1Events = ch.events
       /\ l1Domains = ch.domains
       /\ l1Expiry = ch.expiry
       /\ renewalPeriod = ch.period
  /\ registrationFee = InitialFee
  /\ BridgeInit
  /\ HarnessIdle
  /\ SideIdle
  /\ \E l \in ClientLedgers :
       /\ l2Records = [d \in Domains |-> l]
       /\ l2Types = [d \in Domains |-> IF Len(l["A"].value) > 0 THEN <<"A">> ELSE <<>>]
  /\ now = ClockStart
  /\ cache = [k \in CacheKeys |-> NoEntry]
  /\ clientStats = ZeroClientStats
  /\ config \in Configs
  /\ call = CallIdle
  /\ calls = 0
  /\ ticks = 0

NextClient ==
  \/ \E d \in Domains, t \in QueryTypes, o \in Options : resolveDomain(d, t, o)
  \/ ResolveL2Done
  \/ ResumeL2
  \/ ResolveL2Fail
  \/ CatchL2
  \/ ResolveL1Domain
  \/ ResolveL1Fail
  \/ CatchL1
  \/ ResolveL1Records
  \/ ResumeL1
  \/ \E dt \in Jumps : Tick(dt)

SpecClient == InitClient /\ [][NextClient]_vars

\* ----------------------------------------------------------- resolveBatch
\* the type lists a batch query asks for
BatchTypes == {<<"A">>, <<"A", "CNAME">>, <<"CNAME", "A">>}

\* a batch result; contentHash is "undefined" where the object has no such member
BatchResult(vs, ttls, source, h, err) ==
  [values |-> vs, ttls |-> ttls, source |-> source, contentHash |-> h, error |-> err]

\* Array(n).fill(x)
Fill(n, x) == [i \in 1..n |-> x]

\* _resolveBatchFromL1 is entered: l1Queries++, then it awaits getDomain
EnterBatchL1(c, st, ctx) ==
  /\ call' = [c EXCEPT !.pc = "bl1", !.ctx = ctx, !.tierStart = now]
  /\ clientStats' = [st EXCEPT !.l1Queries = @ + 1]

\* _resolveBatchFromL2 is entered: l2Queries++, then it awaits getBatchRecords
EnterBatchL2(c, st, ctx) ==
  /\ call' = [c EXCEPT !.pc = "bl2", !.ctx = ctx, !.tierStart = now]
  /\ clientStats' = [st EXCEPT !.l2Queries = @ + 1]

\* resolveBatch(domainName, recordTypes, options) up to its first await; the
\* cache is not consulted
resolveBatch(d, ts, o) ==
  /\ calls < MaxBatchCalls
  /\ call.pc \in {"idle", "returned"}
  /\ calls' = calls + 1
  /\ LET st == [clientStats EXCEPT !.totalQueries = @ + 1]
         opts == [o EXCEPT !.verify = o.verify \/ config.verifyWithL1]
         c == [CallIdle EXCEPT !.domain = d, !.types = ts, !.opts = opts, !.startTime = now]
     IN IF opts.forceL1 THEN EnterBatchL1(c, st, "direct")
        ELSE IF opts.forceL2 THEN EnterBatchL2(c, st, "forced")
        ELSE IF config.preferL2 THEN EnterBatchL2(c, st, "prefer")
        ELSE EnterBatchL1(c, st, "direct")
  /\ UNCHANGED <<l1Vars, l2Vars, faults, bridgeVars, harnessVars, sideVars>>
  /\ UNCHANGED <<now, cache, config, ticks>>

\* the outer catch of resolveBatch: nulls and zeros, one per requested type
ReturnBatchError(c) ==
  call' = Returned(c, BatchResult(Fill(Len(c.types), Null), Fill(Len(c.types), 0),
                                  "error", "undefined", "rpc error"))

RECURSIVE CacheBatch(_, _, _, _, _)
\* the loop that caches the truthy values of a batch result, from index i on
CacheBatch(ch, d, ts, res, i) ==
  IF i > Len(ts) THEN ch
  ELSE CacheBatch(IF Truthy(res.values[i])
                  THEN [ch EXCEPT ![<<d, ts[i]>>] =
                          [present |-> TRUE, value |-> res.values[i], ttl |-> res.ttls[i],
                           source |-> res.source, contentHash |-> res.contentHash,
                           error |-> "", timestamp |-> now]]
                  ELSE ch,
                  d, ts, res, i + 1)

\* the end of the try block of resolveBatch: the results are cached when the
\* cache is enabled, and returned
FinishBatch(c, res) ==
  /\ cache' = IF config.useCache THEN CacheBatch(cache, c.domain, c.types, res, 1) ELSE cache
  /\ call' = Returned(c, res)

\* l2Resolver.getBatchRecords(domainHash, recordTypes)
getBatchRecords(d, ts) ==
  [values |-> [i \in 1..Len(ts) |-> getRecord(d, ts[i]).value],
   ttls |-> [i \in 1..Len(ts) |-> getRecord(d, ts[i]).ttl]]

\* getBatchRecords resolved: _resolveBatchFromL2 adds the latency to
\* l2LatencySum and returns the arrays as they are to the await of resolveBatch
ResolveBatchL2Done ==
  /\ call.pc = "bl2"
  /\ LET r == getBatchRecords(call.domain, call.types)
         res == BatchResult([i \in 1..Len(call.types) |-> Val(r.values[i])], r.ttls,
                            "l2", "undefined", "")
     IN call' = [call EXCEPT !.pc = "bl2ret", !.ret = res]
  /\ clientStats' = [clientStats EXCEPT !.l2LatencySum = @ + (now - call.tierStart)]
  /\ UNCHANGED <<l1Vars, l2Vars, faults, bridgeVars, harnessVars, sideVars>>
  /\ UNCHANGED <<now, cache, config, calls, ticks>>

\* resolveBatch resumes with the result of _resolveBatchFromL2: under the
\* default policy a verified query goes on to _resolveBatchFromL1, every other
\* query caches and returns
ResumeBatchL2 ==
  /\ call.pc = "bl2ret"
  /\ LET res == call.ret
         c == [call EXCEPT !.ret = NoResult]
     IN IF call.ctx = "prefer" /\ call.opts.verify
        THEN /\ EnterBatchL1([c EXCEPT !.held = res], clientStats, "verify")
             /\ UNCHANGED cache
        ELSE /\ FinishBatch(c, res)
             /\ UNCHANGED clientStats
  /\ UNCHANGED <<l1Vars, l2Vars, faults, bridgeVars, harnessVars, sideVars>>
  /\ UNCHANGED <<now, config, calls, ticks>>

\* mutant of BatchFallsBack: no failed L2 batch read is followed by an L1 read
BatchFallsBackNever(c) == FALSE

\* the try around the L2 batch read of the default policy: its catch falls back
\* to L1
BatchFallsBack(c) == c.ctx = "prefer"

\* getBatchRecords rejected: the catch of _resolveBatchFromL2 does l2Errors++
\* and rethrows the error to the await of resolveBatch
ResolveBatchL2Fail ==
  /\ call.pc = "bl2"
  /\ CanFault
  /\ faults' = faults + 1
  /\ clientStats' = [clientStats EXCEPT !.l2Errors = @ + 1]
  /\ call' = [call EXCEPT !.pc = "bl2thrown"]
  /\ UNCHANGED <<l1Vars, l2Vars, bridgeVars, harnessVars, sideVars>>
  /\ UNCHANGED <<now, cache, config, calls, ticks>>

\* the error of _resolveBatchFromL2 reaches resolveBatch: the default policy
\* catches it and enters _resolveBatchFromL1, a forced L2 query ends in the outer
\* catch
CatchBatchL2 ==
  /\ call.pc = "bl2thrown"
  /\ IF BatchFallsBack(call)
     THEN EnterBatchL1(call, clientStats, "fallback")
     ELSE ReturnBatchError(call) /\ UNCHANGED clientStats
  /\ UNCHANGED <<l1Vars, l2Vars, faults, bridgeVars, harnessVars, sideVars>>
  /\ UNCHANGED <<now, cache, config, calls, ticks>>

\* _resolveBatchFromL1 returned res to resolveBatch
AfterBatchL1(c, res) ==
  IF c.ctx = "verify"
  THEN FinishBatch(c, IF Supersedes(res, c.held) THEN res ELSE c.held)
  ELSE FinishBatch(c, res)

\* getDomain resolved in _resolveBatchFromL1
ResolveBatchL1Domain ==
  /\ call.pc = "bl1"
  /\ LET rec == l1Domains[call.domain]
         n == Len(call.types)
     IN IF Unregistered(rec)
        THEN /\ AfterBatchL1(call, BatchResult(Fill(n, Null), Fill(n, 0), "l1", "null", ""))
             /\ UNCHANGED clientStats
        ELSE IF l1Expiry[call.domain] < now \div 1000
        THEN /\ AfterBatchL1(call, BatchResult(Fill(n, Null), Fill(n, 0), "l1",
                                               rec.contentHash, "Domain expired"))
             /\ UNCHANGED clientStats
        ELSE /\ call' = [call EXCEPT !.pc = "bipfs", !.contentHash = rec.contentHash]
             /\ UNCHANGED <<clientStats, cache>>
  /\ UNCHANGED <<l1Vars, l2Vars, faults, bridgeVars, harnessVars, sideVars>>
  /\ UNCHANGED <<now, config, calls, ticks>>

\* getDomain rejected in _resolveBatchFromL1: its catch does l1Errors++ and
\* rethrows the error to the await of resolveBatch
ResolveBatchL1Fail ==
  /\ call.pc = "bl1"
  /\ CanFault
  /\ faults' = faults + 1
  /\ clientStats' = [clientStats EXCEPT !.l1Errors = @ + 1]
  /\ call' = [call EXCEPT !.pc = "bl1thrown"]
  /\ UNCHANGED <<l1Vars, l2Vars, bridgeVars, harnessVars, sideVars>>
  /\ UNCHANGED <<now, cache, config, calls, ticks>>

\* the error of _resolveBatchFromL1 reaches resolveBatch; thrown by the verifying
\* read it is caught by the default policy's catch, which enters
\* _resolveBatchFromL1 again; otherwise it ends in the outer catch
CatchBatchL1 ==
  /\ call.pc = "bl1thrown"
  /\ IF call.ctx = "verify"
     THEN EnterBatchL1(call, clientStats, "fallback")
     ELSE ReturnBatchError(call) /\ UNCHANGED clientStats
  /\ UNCHANGED <<l1Vars, l2Vars, faults, bridgeVars, harnessVars, sideVars>>
  /\ UNCHANGED <<now, cache, config, calls, ticks>>

\* _getRecordsFromIPFS resolved: one value and one ttl per requested type, the
\* latency is added to l1LatencySum and _resolveBatchFromL1 returns its result
\* to the await of resolveBatch
ResolveBatchL1Records ==
  /\ call.pc = "bipfs"
  /\ LET records == getMockRecordsFromHash(call.contentHash)
         values == [i \in 1..Len(call.types) |->
                      IF records.hasRecords THEN Project(records.records, call.types[i])
                      ELSE Null]
         ttls == [i \in 1..Len(call.types) |-> ProjectTtl(records, call.types[i])]
     IN call' = [call EXCEPT !.pc = "bl1ret",
                             !.ret = BatchResult(values, ttls, "l1", call.contentHash, "")]
  /\ clientStats' = [clientStats EXCEPT !.l1LatencySum = @ + (now - call.tierStart)]
  /\ UNCHANGED <<l1Vars, l2Vars, faults, bridgeVars, harnessVars, sideVars>>
  /\ UNCHANGED <<now, cache, config, calls, ticks>>

\* resolveBatch resumes with the result of _resolveBatchFromL1
ResumeBatchL1 ==
  /\ call.pc = "bl1ret"
  /\ AfterBatchL1([call EXCEPT !.ret = NoResult], call.ret)
  /\ UNCHANGED clientStats
  /\ UNCHANGED <<l1Vars, l2Vars, faults, bridgeVars, harnessVars, sideVars>>
  /\ UNCHANGED <<now, config, calls, ticks>>

\* mutant of clearCache: the call is counted as a query
clearCacheCounted ==
  /\ cache' = [k \in CacheKeys |-> NoEntry]
  /\ clientStats' = [clientStats EXCEPT !.totalQueries = @ + 1]
  /\ UNCHANGED <<l1Vars, l2Vars, faults, bridgeVars, harnessVars, sideVars>>
  /\ UNCHANGED <<now, config, call, calls, ticks>>

\* clearCache(): this.cache = {}
clearCache ==
  /\ cache' = [k \in CacheKeys |-> NoEntry]
  /\ UNCHANGED <<l1Vars, l2Vars, faults, bridgeVars, harnessVars, sideVars>>
  /\ UNCHANGED <<now, clientStats, config, call, calls, ticks>>

\* the client with its batch queries and clearCache
NextQueries ==
  \/ NextClient
  \/ \E d \in Domains, ts \in BatchTypes, o \in Options : resolveBatch(d, ts, o)
  \/ ResolveBatchL2Done
  \/ ResumeBatchL2
  \/ ResolveBatchL2Fail
  \/ CatchBatchL2
  \/ ResolveBatchL1Domain
  \/ ResolveBatchL1Fail
  \/ CatchBatchL1
  \/ ResolveBatchL1Records
  \/ ResumeBatchL1
  \/ clearCache

SpecQueries == InitClient /\ [][NextQueries]_vars

\* --------------------------------------------------------------- getStats
\* a number of the report is the fraction num / den in lowest terms, den > 0;
\* the arithmetic is exact where the program's is floating point
RECURSIVE Gcd(_, _)
Gcd(a, b) == IF b = 0 THEN a ELSE Gcd(b, a % b)
Abs(n) == IF n < 0 THEN 0 - n ELSE n
Ratio(n, d) == [num |-> n \div Gcd(Abs(n), d), den |-> d \div Gcd(Abs(n), d)]
Whole(n) == Ratio(n, 1)
\* a - b
Minus(a, b) == Ratio(a.num * b.den - b.num * a.den, a.den * b.den)
\* a / b, for b > 0
Over(a, b) == Ratio(a.num * b.den, a.den * b.num)
\* a * k
Times(a, k) == Ratio(a.num * k, a.den)
Positive(a) == a.num > 0

\* mutant of getStatsOf: the reduction is computed whenever the L1 average is
\* positive
getStatsUnguarded(st) ==
  LET l1AvgLatency == IF st.l1Queries > 0 THEN Ratio(st.l1LatencySum, st.l1Queries)
                      ELSE Whole(0)
      l2AvgLatency == IF st.l2Queries > 0 THEN Ratio(st.l2LatencySum, st.l2Queries)
                      ELSE Whole(0)
  IN [stats |-> st,
      l1AvgLatency |-> l1AvgLatency,
      l2AvgLatency |-> l2AvgLatency,
      cacheHitRate |-> IF st.totalQueries > 0
                       THEN Times(Ratio(st.cacheHits, st.totalQueries), 100)
                       ELSE Whole(0),
      latencyReduction |->
        IF Positive(l1AvgLatency)
        THEN Times(Over(Minus(l1AvgLatency, l2AvgLatency), l1AvgLatency), 100)
        ELSE Whole(0)]

\* getStats(): the counters, and the four derived numbers
getStatsOf(st) ==
  LET l1AvgLatency == IF st.l1Queries > 0 THEN Ratio(st.l1LatencySum, st.l1Queries)
                      ELSE Whole(0)
      l2AvgLatency == IF st.l2Queries > 0 THEN Ratio(st.l2LatencySum, st.l2Queries)
                      ELSE Whole(0)
      cacheHitRate == IF st.totalQueries > 0
                      THEN Times(Ratio(st.cacheHits, st.totalQueries), 100)
                      ELSE Whole(0)
  IN [stats |-> st,
      l1AvgLatency |-> l1AvgLatency,
      l2AvgLatency |-> l2AvgLatency,
      cacheHitRate |-> cacheHitRate,
      latencyReduction |->
        IF Positive(l1AvgLatency) /\ Positive(l2AvgLatency)
        THEN Times(Over(Minus(l1AvgLatency, l2AvgLatency), l1AvgLatency), 100)
        ELSE Whole(0)]

getStats ==
  /\ report = <<>>
  /\ report' = getStatsOf(clientStats)
  /\ UNCHANGED <<l1Vars, l2Vars, faults, bridgeVars, harnessVars, clientVars,
                 bridgeAddress, txs>>

\* the counters of a client that has answered some queries: a query is a cache
\* hit or reads a tier at least once, and a tier has latency only if it was read
SampleStats ==
  {st \in [totalQueries : {0, 1, 2, 10}, l1Queries : {0, 1, 3}, l2Queries : {0, 1, 6},
           cacheHits : {0, 1}, l1LatencySum : {0, 100, 900}, l2LatencySum : {0, 30, 180},
           l1Errors : {0}, l2Errors : {0}] :
     /\ st.cacheHits <= st.totalQueries
     /\ st.l1Queries + st.l2Queries >= st.totalQueries - st.cacheHits
     /\ (st.totalQueries = st.cacheHits) => (st.l1Queries = 0 /\ st.l2Queries = 0)
     /\ (st.l1Queries = 0) => (st.l1LatencySum = 0)
     /\ (st.l2Queries = 0) => (st.l2LatencySum = 0)}

\* a client with the constructor's defaults, between two queries
InitStats ==
  /\ ChainInit
  /\ BridgeInit
  /\ LedgerEmpty
  /\ HarnessIdle
  /\ SideIdle
  /\ now = ClockStart
  /\ cache = [k \in CacheKeys |-> NoEntry]
  /\ clientStats \in SampleStats
  /\ config = [useCache |-> TRUE, preferL2 |-> TRUE, verifyWithL1 |-> FALSE]
  /\ call = CallIdle
  /\ calls = clientStats.totalQueries
  /\ l1Expiry = [d \in Domains |-> 0]
  /\ registrationFee = InitialFee
  /\ renewalPeriod = InitialPeriod
  /\ ticks = 0

NextStats == getStats

SpecStats == InitStats /\ [][NextStats]_vars

\* ------------------------------------------- DDNSResolver's transactions
\* transactions sent to the resolver during a run
MaxTxs == 5

\* the accounts that send transactions; the resolver is deployed with "bridge"
Senders == {"bridge", "user1", "user2"}
TxValues == {<<"1.1.1.1">>, <<"2.2.2.2">>}
\* the arrays of a batch: two records of two types, two records of one type as
\* the bridge sends for the MX entries of a record set, or arrays that differ in
\* length
TxBatches ==
  {[types |-> <<"A", "MX">>, values |-> <<v, v>>, ttls |-> <<SampleTtl, SampleTtl>>] :
     v \in TxValues}
  \cup {[types |-> <<"MX", "MX">>, values |-> <<<<"1.1.1.1">>, <<"2.2.2.2">>>>,
          ttls |-> <<SampleTtl, DefaultTtl>>]}
  \cup {[types |-> <<"A", "MX">>, values |-> <<<<"1.1.1.1">>>>, ttls |-> <<SampleTtl, SampleTtl>>]}

\* mutant of onlyBridge: any sender passes
onlyBridgeAnyone(sender) == TRUE

\* modifier onlyBridge: require(msg.sender == bridgeAddress)
onlyBridge(sender) == sender = bridgeAddress

RECURSIVE IndexOf(_, _, _)
\* the first index from i on at which the list holds the type, 0 if none
IndexOf(types, type, i) ==
  IF i > Len(types) THEN 0
  ELSE IF types[i] = type THEN i
  ELSE IndexOf(types, type, i + 1)

\* _removeRecordType: the last element takes the place of the first match, and
\* the list is popped
removeRecordType(types, type) ==
  LET i == IndexOf(types, type, 1)
  IN IF i = 0 THEN types
     ELSE SubSeq([types EXCEPT ![i] = types[Len(types)]], 1, Len(types) - 1)

\* a transaction is mined: it is counted, whether it reverts or not
Mined ==
  /\ txs < MaxTxs
  /\ txs' = txs + 1
  /\ UNCHANGED <<l1Vars, faults, bridgeVars, harnessVars, clientVars, report>>

\* setRecord sent by an account
SendSetRecord(sender, d, type, value, ttl) ==
  /\ Mined
  /\ IF onlyBridge(sender)
     THEN LET st == setRecord([records |-> l2Records, types |-> l2Types], d, type, value, ttl)
          IN l2Records' = st.records /\ l2Types' = st.types
     ELSE UNCHANGED l2Vars
  /\ UNCHANGED bridgeAddress

\* setBatchRecords sent by an account
SendSetBatchRecords(sender, d, b) ==
  /\ Mined
  /\ IF onlyBridge(sender)
     THEN LET st == setBatchRecords([records |-> l2Records, types |-> l2Types], d,
                                    b.types, b.values, b.ttls)
          IN l2Records' = st.records /\ l2Types' = st.types
     ELSE UNCHANGED l2Vars
  /\ UNCHANGED bridgeAddress

\* removeRecord sent by an account: reverts unless the record holds a value
SendRemoveRecord(sender, d, type) ==
  /\ Mined
  /\ IF onlyBridge(sender) /\ Len(l2Records[d][type].value) > 0
     THEN /\ l2Records' = [l2Records EXCEPT ![d][type] = NoRecord]
          /\ l2Types' = [l2Types EXCEPT ![d] = removeRecordType(@, type)]
     ELSE UNCHANGED l2Vars
  /\ UNCHANGED bridgeAddress

\* updateBridgeAddress sent by an account: reverts for the zero address
SendUpdateBridgeAddress(sender, newBridgeAddress) ==
  /\ Mined
  /\ bridgeAddress' = IF onlyBridge(sender) /\ newBridgeAddress # AddressZero
                      THEN newBridgeAddress
                      ELSE bridgeAddress
  /\ UNCHANGED l2Vars

NextResolver ==
  \/ \E s \in Senders, d \in Domains, t \in SampleTypes, v \in TxValues :
       SendSetRecord(s, d, t, v, SampleTtl)
  \/ \E s \in Senders, d \in Domains, b \in TxBatches : SendSetBatchRecords(s, d, b)
  \/ \E s \in Senders, d \in Domains, t \in SampleTypes : SendRemoveRecord(s, d, t)
  \/ \E s \in Senders, a \in Senders \cup {AddressZero} : SendUpdateBridgeAddress(s, a)

SpecResolver == Init /\ [][NextResolver]_vars


\* ================================================================ claims
Polls == 1..MaxPolls
Applies == 1..MaxApplies

\* the states of a poll cycle before its cursor assignment
BeforeAdvance == {"height", "queryUpdated", "queryRegistered"}

\* the step in which poll cycle p throws (the callback's catch counts it)
PollThrows(p) ==
  /\ polls[p].pc # "idle"
  /\ polls'[p] = PollIdle
  /\ stats'.errors = stats.errors + 1

\* the step in which the failure of the apply of slot a, rethrown by
\* processDomainUpdate, is handled by the callback
ApplyThrows(a) ==
  /\ applies[a].pc = "rethrown"
  /\ applies'[a] = ApplyIdle

\* the step in which start() returns true
StartSucceeds == startCall.pc = "height" /\ startCall'.pc = "returned" /\ startCall'.result

RECURSIVE EventsUpTo(_, _, _, _)
\* the events of one class among the first n of the log, at heights lo..hi, in order
EventsUpTo(n, kind, lo, hi) ==
  IF n = 0 THEN <<>>
  ELSE LET e == l1Events[n]
           rest == EventsUpTo(n - 1, kind, lo, hi)
       IN IF e.kind = kind /\ lo <= e.blockNumber /\ e.blockNumber <= hi
          THEN rest \o <<e>> ELSE rest

EventsIn(kind, lo, hi) == EventsUpTo(Len(l1Events), kind, lo, hi)

\* C1: the cursor lastProcessedBlock never decreases, whatever start(), poll
\* cycles and apply cycles do and however they interleave.
C1_CursorNeverDecreases == [][lastProcessedBlock' >= lastProcessedBlock]_vars

\* C2: a poll cycle whose height read or whose DomainUpdated / DomainRegistered
\* query throws has not changed the cursor and has enqueued nothing: none of its
\* steps up to and including the throw writes lastProcessedBlock, the queue or
\* eventsProcessed.
C2_FailedQueryLeavesCursorAndQueue ==
  [][\A p \in Polls :
       (/\ polls'[p] # polls[p]
        /\ \/ polls'[p].pc \in BeforeAdvance
           \/ polls[p].pc \in BeforeAdvance /\ PollThrows(p))
       => /\ lastProcessedBlock' = lastProcessedBlock
          /\ queue' = queue
          /\ stats'.eventsProcessed = stats.eventsProcessed]_vars

\* a poll cycle threw on a query: an error is counted, nothing was ever enqueued
\* and the cursor still stands where start() put it, below an event of the chain
C2_Witness ==
  /\ stats.errors >= 1
  /\ stats.eventsProcessed = 0
  /\ startCall.pc = "returned" /\ startCall.result
  /\ lastProcessedBlock = startCall.currentBlock - 10000
  /\ \E i \in 1..Len(l1Events) : l1Events[i].blockNumber > lastProcessedBlock
  /\ \A p \in Polls : polls[p].pc = "idle"

\* C3: when a poll cycle fails, also in a getDomain point read, no registration
\* event whose domain carries content is left without a task at a height the
\* cursor has passed.
C3_FailedPollSkipsNoEvent ==
  [][\A p \in Polls :
       PollThrows(p) /\ polls[p].pc = "getDomain"
       => \A i \in polls[p].idx..Len(polls[p].registerEvents) :
             LET e == polls[p].registerEvents[i]
             IN e.blockNumber <= lastProcessedBlock'
                => l1Domains[e.domainHash].contentHash = HashZero]_vars

\* C4: a start() that succeeds after reading height H leaves the cursor at
\* H - 10000.
C4_StartCursorIsHeightMinusWindow ==
  [][StartSucceeds => lastProcessedBlock' = l1Height - 10000]_vars

\* start() has returned true and the cursor stands 10000 below the height read
C4_Witness ==
  /\ startCall.pc = "returned"
  /\ startCall.result
  /\ starts = 1
  /\ lastProcessedBlock = startCall.currentBlock - 10000

\* the two intervals a successful start() schedules
StartSchedulesPollAndApply ==
  /\ timersCreated' = timersCreated + 2
  /\ timers \subseteq timers'
  /\ \E t, u \in timers' \ timers :
       /\ t.kind = "poll" /\ u.kind = "apply"
       /\ timers' \ timers = {t, u}

\* C5: after a successful start() that read the height H, start() has returned
\* true, exactly the poll and the apply activity are scheduled, and the cursor
\* is H - 10 (H = 1000 gives 990).
C5_StartCursorIsHeightMinusTen ==
  [][StartSucceeds => StartSchedulesPollAndApply /\ lastProcessedBlock' = l1Height - 10]_vars

\* what start() does of C5: it returns true, schedules exactly the poll and the
\* apply activity, and leaves the cursor at H - 10000
StartLeavesCursorAtWindow ==
  [][StartSucceeds => StartSchedulesPollAndApply /\ lastProcessedBlock' = l1Height - 10000]_vars

\* C6: when the height read of start() fails, start() returns false, no interval
\* is scheduled, and the cursor, the queue and the counters stay as they were.
C6_FailedStartChangesNothing ==
  [][(startCall.pc = "height" /\ startCall' # startCall /\ faults' = faults + 1)
     => /\ startCall'.pc = "returned" /\ ~startCall'.result
        /\ UNCHANGED <<timers, timersCreated, pollingInterval>>
        /\ UNCHANGED <<lastProcessedBlock, queue, stats>>]_vars

\* start() has returned false on a bridge that still is as constructed
C6_Witness ==
  /\ startCall.pc = "returned" /\ ~startCall.result
  /\ faults >= 1
  /\ timers = {} /\ timersCreated = 0
  /\ lastProcessedBlock = 0 /\ queue = <<>> /\ stats = ZeroStats

\* the update tasks for a list of events, in order
ExpectedUpdateTasks(events) ==
  [i \in 1..Len(events) |->
     [type |-> "update", domainHash |-> events[i].domainHash,
      contentHash |-> events[i].contentHash, blockNumber |-> events[i].blockNumber,
      retries |-> 0]]

\* C7: a poll cycle that read height H > lastProcessedBlock queries each event
\* class over exactly lastProcessedBlock + 1 .. H, appends one update task
\* (retries 0, the event's domainHash, contentHash and blockNumber) per update
\* event returned, counts each in eventsProcessed and sets the cursor to H; with
\* H <= lastProcessedBlock it queries nothing and changes nothing.
C7_PollCycle ==
  [][\A p \in Polls :
       /\ (polls[p].pc = "height" /\ polls'[p].pc = "queryUpdated")
          => /\ l1Height > lastProcessedBlock
             /\ polls'[p].currentBlock = l1Height
             /\ polls'[p].updateEvents =
                  EventsIn("DomainUpdated", lastProcessedBlock + 1, l1Height)
       /\ (polls[p].pc = "queryUpdated" /\ polls'[p].pc = "queryRegistered")
          => /\ polls'[p].currentBlock = polls[p].currentBlock
             /\ polls'[p].updateEvents = polls[p].updateEvents
             /\ polls'[p].registerEvents =
                  EventsIn("DomainRegistered", lastProcessedBlock + 1, polls[p].currentBlock)
       /\ (polls[p].pc = "queryRegistered" /\ polls'[p] # polls[p] /\ ~PollThrows(p))
          => /\ queue' = queue \o ExpectedUpdateTasks(polls[p].updateEvents)
             /\ stats' = [stats EXCEPT !.eventsProcessed = @ + Len(polls[p].updateEvents)]
             /\ lastProcessedBlock' = polls[p].currentBlock
       /\ (polls[p].pc = "height" /\ polls'[p].pc = "idle" /\ ~PollThrows(p))
          => /\ l1Height <= lastProcessedBlock
             /\ UNCHANGED <<lastProcessedBlock, queue, stats>>]_vars

\* a poll cycle has ended with the cursor at the chain's height and its update
\* task, not yet applied, in the queue
C7_Witness ==
  /\ lastProcessedBlock = l1Height
  /\ \A p \in Polls : polls[p].pc = "idle"
  /\ Len(queue) = 1
  /\ queue[1].type = "update" /\ queue[1].retries = 0
  /\ queue[1].blockNumber <= lastProcessedBlock
  /\ stats.eventsProcessed = 1

\* C8: for a registration event a register task is enqueued exactly when the
\* point read of the domain's record gives a non-zero content hash, and the task
\* carries that content hash; with a zero content hash nothing is enqueued.
C8_RegisterTaskIffContent ==
  [][\A p \in Polls :
       (polls[p].pc = "getDomain" /\ polls'[p] # polls[p] /\ ~PollThrows(p))
       => LET e == polls[p].registerEvents[polls[p].idx]
              c == l1Domains[e.domainHash].contentHash
          IN IF c # HashZero
             THEN /\ queue' = Append(queue, [type |-> "register", domainHash |-> e.domainHash,
                                             contentHash |-> c, blockNumber |-> e.blockNumber,
                                             retries |-> 0])
                  /\ stats' = [stats EXCEPT !.eventsProcessed = @ + 1]
             ELSE queue' = queue /\ stats' = stats]_vars

\* a register task carrying the domain's content hash is queued
C8_Witness ==
  \E i \in 1..Len(queue) :
    /\ queue[i].type = "register"
    /\ queue[i].contentHash # HashZero
    /\ queue[i].contentHash = l1Domains[queue[i].domainHash].contentHash

\* the tasks queued or being applied
TasksInFlight == {applies[a].item : a \in {b \in Applies : applies[b].pc # "idle"}}
TasksQueued == {queue[i] : i \in 1..Len(queue)}

\* C9: retry exhaustion. retries counts the failed applies of a task; no task
\* that is queued or being applied has failed more than maxRetries times, and
\* the failure of a task that already failed maxRetries times (its
\* maxRetries + 1st apply) puts nothing back in the queue.
C9_RetryExhaustion ==
  /\ [](\A t \in TasksQueued \cup TasksInFlight : t.retries <= maxRetries)
  /\ [][\A a \in Applies :
          ApplyThrows(a) /\ applies[a].item.retries >= maxRetries => queue' = queue]_vars

\* the only task ever enqueued failed maxRetries + 1 times and is gone
C9_Witness ==
  /\ stats.eventsProcessed = 1
  /\ stats.l2SubmissionErrors = maxRetries + 1
  /\ stats.errors = 1
  /\ stats.updatesSynced = 0
  /\ queue = <<>>
  /\ \A a \in Applies : applies[a].pc = "idle"
  /\ \A p \in Polls : polls[p].pc = "idle"

\* C10 as stated: a failed apply re-enqueues the task, its retry count
\* incremented, only if the incremented count is strictly below maxRetries, and
\* otherwise abandons it and counts one error.
C10_RequeueIfIncrementedBelowMax ==
  [][\A a \in Applies :
       ApplyThrows(a)
       => LET item == applies[a].item
          IN IF item.retries + 1 < maxRetries
             THEN /\ queue' = Append(queue, [item EXCEPT !.retries = @ + 1])
                  /\ stats'.errors = stats.errors
             ELSE /\ queue' = queue
                  /\ stats'.errors = stats.errors + 1]_vars

\* C10 amended: a failed apply re-enqueues the task at the back, its retry count
\* incremented by one, exactly when the count before the increment is strictly
\* below maxRetries (the incremented count is at most maxRetries); otherwise the
\* task is abandoned and the error counter is incremented exactly once.
C10_RequeueIfBelowMaxBeforeIncrement ==
  [][\A a \in Applies :
       ApplyThrows(a)
       => LET item == applies[a].item
          IN IF item.retries < maxRetries
             THEN /\ queue' = Append(queue, [item EXCEPT !.retries = @ + 1])
                  /\ stats'.errors = stats.errors
             ELSE /\ queue' = queue
                  /\ stats'.errors = stats.errors + 1]_vars

\* a task is back in the queue after its maxRetries-th failed apply
C10_Witness ==
  /\ stats.l2SubmissionErrors >= 1
  /\ \E i \in 1..Len(queue) : queue[i].retries = maxRetries

\* the step in which apply slot a gives up its task
TaskLeaves(a) == applies[a].pc # "idle" /\ applies'[a].pc = "idle"

\* C11: a dequeued task leaves an apply slot only by a confirmed batch write
\* (updatesSynced counts it), by abandonment after its retries (errors counts
\* it), or by going back to the queue with one more retry; also when the fetched
\* document is malformed or holds no records.
C11_TaskLeavesOnlyCounted ==
  [][\A a \in Applies :
       TaskLeaves(a)
       => \/ stats'.updatesSynced = stats.updatesSynced + 1
          \/ stats'.errors = stats.errors + 1
          \/ queue' = Append(queue, [applies[a].item EXCEPT !.retries = @ + 1])]_vars

\* C12: no exception escapes an apply tick. A failed apply ends inside its tick:
\* the slot is free again, the task is re-enqueued behind the tasks that were
\* queued or abandoned with one error counted, the queued tasks stay queued in
\* order, and the apply interval stays scheduled, so later ticks go on dequeuing.
C12_FailureHandledInsideTick ==
  /\ [](stats.l2SubmissionErrors > 0 => TimerSet("apply"))
  /\ [][\A a \in Applies :
          ApplyThrows(a)
          => /\ timers' = timers
             /\ \A b \in Applies \ {a} : applies'[b] = applies[b]
             /\ SubSeq(queue', 1, Len(queue)) = queue
             /\ \/ queue' = Append(queue, [applies[a].item EXCEPT !.retries = @ + 1])
                \/ queue' = queue /\ stats'.errors = stats.errors + 1]_vars

\* one task failed until it was abandoned and a tick applied another task
C12_Witness ==
  /\ stats.errors = 1
  /\ stats.l2SubmissionErrors = maxRetries + 1
  /\ stats.updatesSynced = 1
  /\ stats.eventsProcessed = 2
  /\ TimerSet("apply")

\* every call made on the task has returned and no external call failed
RunsReturned(n) ==
  /\ applyCount = n
  /\ faults = 0
  /\ \A k \in 1..n : runs[k].pc = "returned"

\* C13: applying a task twice leaves the fast ledger, for every record type,
\* with the same value and ttl as applying it once, and with the same list of
\* record types.
C13_ApplyTwiceEqualsOnce ==
  RunsReturned(2)
  => \A d \in Domains : l2Records[d] = ledgerOnce.records /\ l2Types[d] = ledgerOnce.types

RECURSIVE ValuesBefore(_, _)
\* the number of values in the first i record types of a record set
ValuesBefore(records, i) ==
  IF i = 0 THEN 0 ELSE ValuesBefore(records, i - 1) + Len(records[i].values)

\* C14: applying a task flattens the fetched record set into three arrays of
\* equal length, one entry per value in order (an object value serialized to a
\* string, the ttl the set's ttl, or 3600 if the set specifies none), submits
\* them in exactly one batch write, and the confirmed write adds one to
\* updatesSynced.
C14_FlattenAndSubmitOnce ==
  LET rs == fetched.records
      n == ValuesBefore(rs, Len(rs))
  IN (RunsReturned(1) /\ fetched.hasRecords /\ n > 0)
     => /\ batch.sent = 1
        /\ stats.updatesSynced = 1
        /\ Len(batch.recordTypes) = n /\ Len(batch.values) = n /\ Len(batch.ttls) = n
        /\ \A i \in 1..Len(rs) : \A j \in 1..Len(rs[i].values) :
             LET k == ValuesBefore(rs, i - 1) + j
                 v == rs[i].values[j]
             IN /\ batch.recordTypes[k] = rs[i].type
                /\ batch.values[k] = IF v.obj THEN JSONstringify(v) ELSE v.str
                /\ batch.ttls[k] = IF fetched.hasTtl THEN fetched.ttl ELSE 3600

\* C15: when the content fetch of an apply fails the task is not aborted: the
\* fallback record set (A, AAAA, TXT and two MX entries, ttl 3600) is flattened
\* and its batch write is submitted for the task, ipfsRetrievalErrors goes up by
\* exactly one and l2SubmissionErrors, errors and the queue are unchanged.
C15_FetchFailureFallsBack ==
  [][\A a \in Applies :
       /\ (applies[a].pc = "ipfs" /\ applies'[a] # applies[a] /\ faults' = faults + 1)
          => /\ applies'[a] = [applies[a] EXCEPT !.pc = "mock"]
             /\ stats' = [stats EXCEPT !.ipfsRetrievalErrors = @ + 1]
             /\ queue' = queue
       /\ (applies[a].pc = "mock" /\ applies'[a] # applies[a])
          => /\ applies'[a].pc = "submit"
             /\ applies'[a].item = applies[a].item
             /\ applies'[a].recordTypes = <<"A", "AAAA", "TXT", "MX", "MX">>
             /\ Len(applies'[a].values) = 5
             /\ applies'[a].ttls = <<3600, 3600, 3600, 3600, 3600>>
             /\ stats' = stats
             /\ queue' = queue]_vars

\* a fetch failed, and the fallback MX record was written and confirmed with no
\* apply error counted
C15_Witness ==
  /\ stats.ipfsRetrievalErrors = 1
  /\ stats.l2SubmissionErrors = 0
  /\ stats.updatesSynced = 1
  /\ \E d \in Domains : Len(l2Records[d]["MX"].value) > 0

\* C16: after stop() has returned true no further poll cycle and no further
\* apply cycle begins.
C16_StopHaltsBothActivities ==
  [][(stopped /\ stopped')
     => /\ \A p \in Polls : ~(polls[p].pc = "idle" /\ polls'[p].pc # "idle")
        /\ \A a \in Applies : ~(applies[a].pc = "idle" /\ applies'[a].pc # "idle")]_vars

\* the entry of the cache for a query, and whether a read at `now` finds it live
EntryOf(d, t) == cache[<<d, t>>]
LiveAt(e) == e.present /\ now < e.timestamp + e.ttl * 1000

\* C17: resolveDomain with the cache enabled, skipCache unset and a live entry
\* returns the entry's value and ttl with source cache, adds one to cacheHits
\* and reads no ledger; with skipCache set the live entry is ignored, a tier is
\* read and cacheHits is unchanged.
C17_LiveEntryAnswersUnlessSkipped ==
  [][\A d \in Domains, t \in QueryTypes, o \in Options :
       (resolveDomain(d, t, o) /\ LiveAt(EntryOf(d, t)))
       => /\ (config.useCache /\ ~o.skipCache)
             => /\ call'.pc = "returned"
                /\ call'.result.value = EntryOf(d, t).value
                /\ call'.result.ttl = EntryOf(d, t).ttl
                /\ call'.result.source = "cache"
                /\ clientStats' = [clientStats EXCEPT !.totalQueries = @ + 1,
                                                      !.cacheHits = @ + 1]
          /\ o.skipCache
             => /\ call'.pc \in {"l1", "l2"}
                /\ clientStats'.cacheHits = clientStats.cacheHits
                /\ clientStats'.l1Queries + clientStats'.l2Queries
                     = clientStats.l1Queries + clientStats.l2Queries + 1]_vars

\* the second query was answered from the cache: one hit, one ledger read in all
C17_Witness ==
  /\ call.pc = "returned"
  /\ call.result.source = "cache"
  /\ Truthy(call.result.value)
  /\ clientStats.totalQueries = 2
  /\ clientStats.cacheHits = 1
  /\ clientStats.l1Queries + clientStats.l2Queries = 1

\* C18: no query returns with source cache an entry at a time now >= storedAt +
\* ttl; an entry is returned by a read one millisecond before storedAt + ttl and
\* is treated as absent, the query going on to a tier, from storedAt + ttl on
\* (ttl in seconds, the clock in milliseconds).
C18_CacheTtl ==
  /\ [][(call' # call /\ call'.pc = "returned" /\ call'.result.source = "cache")
        => /\ call.pc \in {"idle", "returned"}
           /\ LiveAt(EntryOf(call'.domain, call'.type))]_vars
  /\ [][\A d \in Domains, t \in QueryTypes, o \in Options :
          (resolveDomain(d, t, o) /\ config.useCache /\ ~o.skipCache /\ EntryOf(d, t).present)
          => LET expiry == EntryOf(d, t).timestamp + EntryOf(d, t).ttl * 1000
             IN /\ now = expiry - 1
                   => call'.pc = "returned" /\ call'.result.source = "cache"
                /\ now >= expiry => call'.pc \in {"l1", "l2"}]_vars

\* a query is reading a tier although the cache holds an entry for its key: the
\* entry expired one millisecond ago
C18_Witness ==
  /\ call.pc \in {"l1", "l2"}
  /\ config.useCache /\ ~call.opts.skipCache
  /\ EntryOf(call.domain, call.type).present
  /\ now = EntryOf(call.domain, call.type).timestamp
             + EntryOf(call.domain, call.type).ttl * 1000 + 1

\* the steps in which a ledger read is issued (the counters are incremented as
\* _resolveFromL1 / _resolveFromL2 are entered)
ReadsL1 == clientStats'.l1Queries # clientStats.l1Queries
ReadsL2 == clientStats'.l2Queries # clientStats.l2Queries

\* C19 as stated: a query consults only the selected tier. With forceL1 the
\* fast ledger is never read; with forceL2 the authoritative ledger is never
\* read, even when the fast read fails; under the default policy a fast read
\* that succeeds is followed by an authoritative read only if verification was
\* requested.
C19_ForcedTierOnly ==
  /\ [](call.pc \in {"l2", "l2ret", "l2thrown"} => ~call.opts.forceL1)
  /\ [](call.pc \in {"l1", "ipfs", "l1ret", "l1thrown"} => ~call.opts.forceL2)
  /\ [][/\ ReadsL2 => (call'.pc = "l2" /\ ~call'.opts.forceL1)
        /\ ReadsL1 => (call'.pc = "l1" /\ ~call'.opts.forceL2)
        /\ (ReadsL1 /\ call.pc \in {"l2", "l2ret", "l2thrown"})
           => \/ call.pc = "l2thrown"
              \/ call.pc = "l2ret" /\ call.opts.verify]_vars

\* C19 amended: a query consults only the selected tier. With forceL1 the fast
\* ledger is never read; with forceL2 and forceL1 not set the authoritative
\* ledger is never read, even when the fast read fails (with both set forceL1
\* takes precedence); under the default policy a fast read that succeeds is
\* followed by an authoritative read only if verification was requested.
C19_OnlySelectedTier ==
  /\ [](call.pc \in {"l2", "l2ret", "l2thrown"} => ~call.opts.forceL1)
  /\ [](call.pc \in {"l1", "ipfs", "l1ret", "l1thrown"}
          => (call.opts.forceL1 \/ ~call.opts.forceL2))
  /\ [][/\ ReadsL2 => (call'.pc = "l2" /\ ~call'.opts.forceL1)
        /\ ReadsL1 => (call'.pc = "l1" /\ (call'.opts.forceL1 \/ ~call'.opts.forceL2))
        /\ (ReadsL1 /\ call.pc \in {"l2", "l2ret", "l2thrown"})
           => \/ call.pc = "l2thrown"
              \/ call.pc = "l2ret" /\ call.opts.verify]_vars

\* a query ended in an error result after one fast read and no authoritative
\* read: a forced fast read that failed
C19_Witness ==
  /\ call.pc = "returned"
  /\ call.result.source = "error"
  /\ clientStats.totalQueries = 1
  /\ clientStats.l2Queries = 1 /\ clientStats.l2Errors = 1
  /\ clientStats.l1Queries = 0

\* what the authoritative tier resolves for a content hash and a record type
L1Resolves(h, t) ==
  IF t = "A" THEN Val(<<"192.168.1.", IF h = "c1" THEN "68" ELSE IF h = "c2" THEN "136" ELSE "0">>)
  ELSE Null

\* C20: under the default policy a fast-tier read that throws is not propagated:
\* l2Errors goes up by exactly one as the read fails, the catch in resolveDomain
\* then enters the authoritative read, and when that read resolves the query
\* returns its value with source l1.
C20_FallbackToAuthoritative ==
  /\ [][clientStats'.l2Errors # clientStats.l2Errors
        => /\ clientStats'.l2Errors = clientStats.l2Errors + 1
           /\ call.pc \in {"l2", "bl2"}
           /\ call.pc = "l2" => call'.pc = "l2thrown"]_vars
  /\ [][(call.pc = "l2thrown" /\ call' # call /\ call.ctx = "prefer")
        => /\ call'.pc = "l1" /\ call'.ctx = "fallback"
           /\ clientStats'.l1Queries = clientStats.l1Queries + 1
           /\ clientStats'.l2Errors = clientStats.l2Errors]_vars
  /\ [][(call.ctx = "fallback" /\ call.pc \in {"l1", "l1ret"} /\ call'.pc = "returned")
        => /\ call'.result.source = "l1"
           /\ clientStats'.l2Errors = clientStats.l2Errors
           /\ call'.result.value =
                IF call.pc = "l1ret" THEN L1Resolves(call.contentHash, call.type) ELSE Null]_vars

\* the fast read failed and the query returned the authoritative value
C20_Witness ==
  /\ call.pc = "returned"
  /\ call.result.source = "l1"
  /\ call.result.value = L1Resolves(l1Domains[call.domain].contentHash, call.type)
  /\ Truthy(call.result.value)
  /\ clientStats.totalQueries = 1
  /\ clientStats.l2Queries = 1 /\ clientStats.l2Errors = 1
  /\ clientStats.l1Queries = 1 /\ clientStats.l1Errors = 0

\* the content reference the authoritative read in progress returns
L1Reference ==
  IF call.pc \in {"l1ret", "bl1ret"} THEN call.contentHash
  ELSE IF ~l1Domains[call.domain].owner THEN "null"
  ELSE l1Domains[call.domain].contentHash

\* C21: in a verified query, single or batch, in which the fast result and the
\* authoritative result carry different content references, the value(s) and
\* the source returned are those of the authoritative result.
C21_MismatchReturnsAuthoritative ==
  [][(call.ctx = "verify" /\ call'.pc = "returned"
        /\ call.pc \in {"l1", "l1ret", "bl1", "bl1ret"}
        /\ call.held.contentHash # L1Reference)
     => /\ call'.result.source = "l1"
        /\ call'.result.contentHash = L1Reference
        /\ call.pc = "l1ret" => call'.result.value = L1Resolves(call.contentHash, call.type)
        /\ call.pc = "l1" => call'.result.value = Null
        /\ call.pc = "bl1ret"
             => call'.result.values =
                  [i \in 1..Len(call.types) |-> L1Resolves(call.contentHash, call.types[i])]
        /\ call.pc = "bl1" => call'.result.values = Fill(Len(call.types), Null)]_vars

\* a verified batch query read both tiers and returned the authoritative
\* values, which differ from the fast ledger's
C21_Witness ==
  /\ call.pc = "returned"
  /\ call.types = <<"A", "CNAME">>
  /\ call.result.source = "l1"
  /\ call.result.values = <<L1Resolves("c1", "A"), Null>>
  /\ Len(l2Records[call.domain]["A"].value) > 0
  /\ Val(l2Records[call.domain]["A"].value) # call.result.values[1]
  /\ clientStats.totalQueries = 1
  /\ clientStats.l2Queries = 1 /\ clientStats.l1Queries = 1
  /\ clientStats.l2Errors = 0 /\ clientStats.l1Errors = 0

\* C22: whenever the fast tier is read in a query that requests verification
\* (per call or by configuration), the authoritative tier is read in the same
\* query, whatever the fast read returned: the step in which resolveDomain
\* resumes from a resolved fast read of a verified query enters the
\* authoritative read.
C22_VerifiedQueryReadsL1 ==
  [][(ResumeL2 /\ call.opts.verify) => (call'.pc = "l1" /\ ReadsL1)]_vars

\* C23: an authoritative read of a registered domain at a time now >= expiry
\* (the boundary now = expiry included) returns an empty result, value null,
\* source l1, with an expiry error, and does not go on to the content store.
C23_ExpiredReadIsEmpty ==
  [][(ResolveL1Domain /\ l1Domains[call.domain].owner
        /\ now \div 1000 >= l1Expiry[call.domain])
     => /\ call'.pc = "returned"
        /\ call'.result.value = Null
        /\ call'.result.source = "l1"
        /\ call'.result.error = "Domain expired"]_vars

\* C24: an authoritative read of an unregistered domain (owner unset) returns
\* an empty result, value null, no error, source l1, without going on to the
\* content store and without counting an L1 error.
C24_UnregisteredReadIsEmpty ==
  [][(ResolveL1Domain /\ ~l1Domains[call.domain].owner)
     => /\ call'.pc = "returned"
        /\ call'.result.value = Null
        /\ call'.result.ttl = 0
        /\ call'.result.source = "l1"
        /\ call'.result.error = ""
        /\ clientStats'.l1Errors = clientStats.l1Errors]_vars

\* a query of an unregistered domain has returned the empty l1 result
C24_Witness ==
  /\ call.pc = "returned"
  /\ ~l1Domains[call.domain].owner
  /\ call.result = Result(Null, 0, "l1", "null", "")
  /\ clientStats.l1Queries = 1
  /\ clientStats.l1Errors = 0

\* a tier read ends the call in this step
TierReturns == call.pc \notin {"idle", "returned"} /\ call'.pc = "returned"

\* the entry the cache holds after the step for the requested type
EntryAfter(t) == cache'[<<call'.domain, t>>]

\* the cache holds value v with ttl for the requested type, stored now
Stored(t, v, ttl) ==
  /\ EntryAfter(t).present
  /\ EntryAfter(t).value = v
  /\ EntryAfter(t).ttl = ttl
  /\ EntryAfter(t).timestamp = now

\* a live entry answers a following resolveDomain for its key with its value
LiveEntryAnswers ==
  [][\A d \in Domains, t \in QueryTypes, o \in Options :
       (resolveDomain(d, t, o) /\ config.useCache /\ ~o.skipCache /\ LiveAt(EntryOf(d, t)))
       => /\ call'.pc = "returned"
          /\ call'.result.source = "cache"
          /\ call'.result.value = EntryOf(d, t).value]_vars

\* C25: with the cache enabled, a resolveDomain or resolveBatch that
\* obtains a non-null value for (domain, type) from a tier leaves in the cache,
\* for that key, an entry with that value, the resolved ttl and storedAt = now,
\* and a following query for the key within the ttl returns it with source cache.
C25_CachePopulationNonNull ==
  /\ [][(TierReturns /\ config.useCache)
        => /\ (call'.types = <<>> /\ ~call'.result.value.null)
                => Stored(call'.type, call'.result.value, call'.result.ttl)
           /\ \A i \in 1..Len(call'.types) :
                ~call'.result.values[i].null
                  => Stored(call'.types[i], call'.result.values[i], call'.result.ttls[i])]_vars
  /\ LiveEntryAnswers

\* C26: resolveDomain never throws: a failed tier read either goes on to the
\* other tier or ends the call with the structured result value null, ttl 0,
\* source error, carrying the error message; and totalQueries has been
\* incremented exactly once for every call made.
C26_FailureEndsInErrorResult ==
  /\ [](clientStats.totalQueries = calls)
  /\ [][(ResolveL2Fail \/ ResolveL1Fail)
        => /\ call'.pc \in {"l2thrown", "l1thrown"}
           /\ clientStats'.totalQueries = clientStats.totalQueries]_vars
  /\ [][((CatchL2 \/ CatchL1) /\ call'.pc # "l1")
        => /\ call'.pc = "returned"
           /\ call'.result.value = Null
           /\ call'.result.ttl = 0
           /\ call'.result.source = "error"
           /\ call'.result.error # ""
           /\ clientStats'.totalQueries = clientStats.totalQueries]_vars

\* both tiers failed in one query, which returned the error result
C26_Witness ==
  /\ call.pc = "returned"
  /\ call.result.source = "error"
  /\ call.result.value = Null
  /\ clientStats.totalQueries = 1
  /\ clientStats.l2Errors = 1
  /\ clientStats.l1Errors = 1

\* C27: resolveBatch under the default policy: when the fast batch read fails,
\* l2Errors goes up by exactly one and the authoritative batch read follows
\* from the catch in resolveBatch;
\* when that read resolves, the values returned are its values for the
\* requested types, in the requested order, with source l1; when it fails too,
\* the call returns nulls and zeros, one per requested type, with source error.
C27_BatchFallback ==
  /\ [][ResolveBatchL2Fail
        => /\ clientStats'.l2Errors = clientStats.l2Errors + 1
           /\ call'.pc = "bl2thrown"]_vars
  /\ [][(CatchBatchL2 /\ call.ctx = "prefer")
        => /\ call'.pc = "bl1"
           /\ call'.ctx = "fallback"
           /\ call'.types = call.types
           /\ clientStats'.l1Queries = clientStats.l1Queries + 1
           /\ clientStats'.l2Errors = clientStats.l2Errors]_vars
  /\ [][(call.ctx = "fallback" /\ call.pc \in {"bl1", "bl1ret"}
           /\ call'.pc = "returned")
        => /\ call'.result.source = "l1"
           /\ clientStats'.l2Errors = clientStats.l2Errors
           /\ call'.result.values =
                [i \in 1..Len(call.types) |->
                   IF call.pc = "bl1ret" THEN L1Resolves(call.contentHash, call.types[i])
                   ELSE Null]]_vars
  /\ [][(call.ctx = "fallback" /\ ResolveBatchL1Fail)
        => /\ call'.pc = "bl1thrown"
           /\ clientStats'.l1Errors = clientStats.l1Errors + 1]_vars
  /\ [][(call.ctx = "fallback" /\ CatchBatchL1)
        => /\ call'.pc = "returned"
           /\ call'.result.source = "error"
           /\ Len(call'.result.values) = Len(call.types)
           /\ Len(call'.result.ttls) = Len(call.types)
           /\ \A i \in 1..Len(call.types) :
                call'.result.values[i] = Null /\ call'.result.ttls[i] = 0]_vars

\* the fast batch read failed and the batch returned the authoritative values
\* in the requested order
C27_Witness ==
  /\ call.pc = "returned"
  /\ call.types = <<"CNAME", "A">>
  /\ call.result.source = "l1"
  /\ call.result.values = <<Null, L1Resolves("c1", "A")>>
  /\ clientStats.totalQueries = 1
  /\ clientStats.l2Queries = 1 /\ clientStats.l2Errors = 1
  /\ clientStats.l1Queries = 1 /\ clientStats.l1Errors = 0

\* the step is a call of resolveDomain: the only operation that starts a call
\* (calls goes up) for a single record type
ResolveDomainStep == calls' = calls + 1 /\ call'.types = <<>>

\* C28: clearCache drops every cache entry and changes no statistic; a query
\* for a key that has no entry, as every key after clearCache, is a miss
\* answered by a tier; totalQueries counts the queries only.
C28_ClearCache ==
  /\ [][clearCache
        => /\ \A k \in CacheKeys : ~cache'[k].present
           /\ clientStats' = clientStats
           /\ call' = call]_vars
  /\ [][(ResolveDomainStep /\ ~EntryOf(call'.domain, call'.type).present)
          => /\ call'.pc \in {"l1", "l2"}
             /\ clientStats'.cacheHits = clientStats.cacheHits
             /\ clientStats'.totalQueries = clientStats.totalQueries + 1]_vars
  /\ [](clientStats.totalQueries = calls /\ clientStats.cacheHits <= calls)

\* populate, hit, clear, miss: the third query is reading a tier over an empty
\* cache, with one hit counted in three queries
C28_Witness ==
  /\ call.pc \in {"l1", "l2"}
  /\ \A k \in CacheKeys : ~cache[k].present
  /\ clientStats.totalQueries = 3
  /\ clientStats.cacheHits = 1
  /\ clientStats.l1Queries + clientStats.l2Queries = 2
  /\ clientStats.l1Errors = 0 /\ clientStats.l2Errors = 0

\* C29: getStats derives l1AvgLatency = l1LatencySum / l1Queries and
\* l2AvgLatency = l2LatencySum / l2Queries (0 for a tier without query),
\* cacheHitRate = cacheHits / totalQueries * 100 (0 without query), and
\* latencyReduction = (l1AvgLatency - l2AvgLatency) / l1AvgLatency * 100 when
\* both averages are positive and 0 otherwise, so that it is non-zero only when
\* both tiers have at least one sample.
C29_DerivedStatistics ==
  report # <<>>
  => LET st == clientStats
         l1Avg == IF st.l1Queries > 0 THEN Ratio(st.l1LatencySum, st.l1Queries) ELSE Whole(0)
         l2Avg == IF st.l2Queries > 0 THEN Ratio(st.l2LatencySum, st.l2Queries) ELSE Whole(0)
     IN /\ report.l1AvgLatency = l1Avg
        /\ report.l2AvgLatency = l2Avg
        /\ report.cacheHitRate =
             IF st.totalQueries > 0 THEN Times(Ratio(st.cacheHits, st.totalQueries), 100)
             ELSE Whole(0)
        /\ report.latencyReduction =
             IF Positive(l1Avg) /\ Positive(l2Avg)
             THEN Times(Over(Minus(l1Avg, l2Avg), l1Avg), 100)
             ELSE Whole(0)
        /\ (report.latencyReduction # Whole(0)) => (st.l1Queries > 0 /\ st.l2Queries > 0)

\* the report for sums 900 / 180 over 3 / 6 queries with 1 hit in 10 queries
C29_Witness ==
  /\ report # <<>>
  /\ clientStats.l1LatencySum = 900 /\ clientStats.l1Queries = 3
  /\ clientStats.l2LatencySum = 180 /\ clientStats.l2Queries = 6
  /\ clientStats.cacheHits = 1 /\ clientStats.totalQueries = 10
  /\ report.l1AvgLatency = Whole(300)
  /\ report.l2AvgLatency = Whole(30)
  /\ report.cacheHitRate = Whole(10)
  /\ report.latencyReduction = Whole(90)

\* a transaction of the sender is mined in this step
SentBy(s) ==
  \/ \E d \in Domains, t \in SampleTypes, v \in TxValues : SendSetRecord(s, d, t, v, SampleTtl)
  \/ \E d \in Domains, b \in TxBatches : SendSetBatchRecords(s, d, b)
  \/ \E d \in Domains, t \in SampleTypes : SendRemoveRecord(s, d, t)
  \/ \E a \in Senders \cup {AddressZero} : SendUpdateBridgeAddress(s, a)

\* the records, the type lists and the bridge address of the resolver
ResolverState == <<l2Records, l2Types, bridgeAddress>>

\* C30: on the resolver the stored records, the record-type lists and the
\* bridge address change only in transactions whose sender is the current
\* bridge address; setRecord, setBatchRecords, removeRecord and
\* updateBridgeAddress sent by any other account leave all of them unchanged.
C30_OnlyBridgeWrites ==
  /\ [][ResolverState' # ResolverState => SentBy(bridgeAddress)]_vars
  /\ [][\A s \in Senders \ {bridgeAddress} :
          /\ \A d \in Domains, t \in SampleTypes, v \in TxValues :
               SendSetRecord(s, d, t, v, SampleTtl) => ResolverState' = ResolverState
          /\ \A d \in Domains, b \in TxBatches :
               SendSetBatchRecords(s, d, b) => ResolverState' = ResolverState
          /\ \A d \in Domains, t \in SampleTypes :
               SendRemoveRecord(s, d, t) => ResolverState' = ResolverState
          /\ \A a \in Senders \cup {AddressZero} :
               SendUpdateBridgeAddress(s, a) => ResolverState' = ResolverState]_vars

\* the bridge has set a record and handed its role to user1; a third
\* transaction has been mined and the record and the role are as they were
C30_Witness ==
  /\ txs = 3
  /\ bridgeAddress = "user1"
  /\ l2Types["d1"] = <<"A">>
  /\ l2Records["d1"]["A"].value = <<"1.1.1.1">>
  /\ l2Records["d1"]["MX"] = NoRecord

\* C31 as stated: a batch write whose types, values and ttls arrays do not all
\* have the same length is rejected as a whole and writes no record; a batch
\* write with equal lengths sets every listed (type, value, ttl), so that
\* getRecord and getBatchRecords return them afterwards.
C31_BatchWriteReadsBackEveryEntry ==
  [][\A d \in Domains, b \in TxBatches :
       SendSetBatchRecords(bridgeAddress, d, b)
       => IF Len(b.types) = Len(b.values) /\ Len(b.types) = Len(b.ttls)
          THEN /\ \A i \in 1..Len(b.types) :
                    getRecord(d, b.types[i])' = [value |-> b.values[i], ttl |-> b.ttls[i]]
               /\ getBatchRecords(d, b.types)' = [values |-> b.values, ttls |-> b.ttls]
          ELSE ResolverState' = ResolverState]_vars

\* the last position of a batch that lists the type of position i
LastOf(types, i) ==
  CHOOSE j \in i..Len(types) :
    types[j] = types[i] /\ \A k \in (j + 1)..Len(types) : types[k] # types[i]

\* C31 amended: a batch write whose arrays do not all have the same length is
\* rejected as a whole and writes no record; a batch write with equal lengths
\* leaves, for every listed type, the value and ttl of the last entry that
\* lists the type, which getRecord and getBatchRecords return afterwards.
C31_BatchWriteAllOrNothing ==
  [][\A d \in Domains, b \in TxBatches :
       SendSetBatchRecords(bridgeAddress, d, b)
       => IF Len(b.types) = Len(b.values) /\ Len(b.types) = Len(b.ttls)
          THEN /\ \A i \in 1..Len(b.types) :
                    getRecord(d, b.types[i])'
                      = [value |-> b.values[LastOf(b.types, i)],
                         ttl |-> b.ttls[LastOf(b.types, i)]]
               /\ getBatchRecords(d, b.types)'
                    = [values |-> [i \in 1..Len(b.types) |-> b.values[LastOf(b.types, i)]],
                       ttls |-> [i \in 1..Len(b.types) |-> b.ttls[LastOf(b.types, i)]]]
          ELSE ResolverState' = ResolverState]_vars

\* one transaction has been mined, a batch of two MX entries: the ledger holds
\* the second entry, and the type once
C31_Witness ==
  /\ txs = 1
  /\ getRecord("d1", "MX") = [value |-> <<"2.2.2.2">>, ttl |-> DefaultTtl]
  /\ getBatchRecords("d1", <<"MX", "MX">>)
       = [values |-> <<<<"2.2.2.2">>, <<"2.2.2.2">>>>, ttls |-> <<DefaultTtl, DefaultTtl>>]
  /\ l2Types["d1"] = <<"MX">>

\* q is the beginning of r
IsPrefix(q, r) == Len(q) <= Len(r) /\ SubSeq(r, 1, Len(q)) = q

\* C32: a task re-enqueued after a failed apply goes to the back of the queue,
\* behind every task that was queued at the moment of the failure; an apply
\* tick takes the task at the front; and the queue changes in no other way
\* than by losing its front or by gaining tasks at its back (FIFO).
C32_RetryGoesToTheBack ==
  /\ [][\A a \in Applies :
          (ApplyCatch(a) /\ applies[a].item.retries < maxRetries)
          => queue' = Append(queue, [applies[a].item EXCEPT !.retries = @ + 1])]_vars
  /\ [][\A a \in Applies :
          ApplyTick(a) => (applies'[a].item = Head(queue) /\ queue' = Tail(queue))]_vars
  /\ [][queue' # queue
        => \/ (queue # <<>> /\ queue' = Tail(queue))
           \/ IsPrefix(queue, queue')]_vars

\* a retried task waits behind a task that has not been tried yet
C32_Witness ==
  /\ Len(queue) = 2
  /\ queue[1].retries = 0
  /\ queue[2].retries = 1
  /\ stats.l2SubmissionErrors = 1

\* C33: each apply tick removes at most one task from the queue, only an apply
\* tick removes tasks, and a tick that finds the queue empty dequeues nothing
\* and changes no state.
C33_AtMostOneTaskPerTick ==
  /\ [][Len(queue') < Len(queue)
        => /\ ~isEmpty(queue)
           /\ Len(queue') = Len(queue) - 1
           /\ \E a \in Applies : ApplyTick(a) /\ applies'[a].item = Front(queue)]_vars
  /\ [][ApplyTickEmpty => (isEmpty(queue) /\ UNCHANGED vars)]_vars
  /\ [][\A a \in Applies : ApplyTick(a) => ~isEmpty(queue)]_vars

\* a tick has taken one of two queued tasks
C33_Witness ==
  /\ Len(queue) = 1
  /\ \E a \in Applies : applies[a].pc = "ipfs" /\ applies[a].item.blockNumber > 0
  /\ stats.eventsProcessed = 2
  /\ stats.updatesSynced = 0
  /\ stats.l2SubmissionErrors = 0

\* C34: when the batch write or the wait for its confirmations fails during an
\* apply, l2SubmissionErrors grows by exactly one, updatesSynced and the other
\* counters and the queue stay, and the error is rethrown; the rethrown error
\* reaches the tick's catch, which counts no further submission error: the task
\* is re-enqueued with one more retry, or abandoned with one error counted.
C34_FailedWriteCountedAndRethrown ==
  /\ [][\A a \in Applies :
          (applies[a].pc \in {"submit", "wait"} /\ applies'[a].pc \notin {"submit", "wait"}
             /\ faults' = faults + 1)
          => /\ stats' = [stats EXCEPT !.l2SubmissionErrors = @ + 1]
             /\ queue' = queue
             /\ applies'[a] = [applies[a] EXCEPT !.pc = "rethrown"]]_vars
  /\ [][\A a \in Applies :
          (applies[a].pc = "rethrown" /\ applies'[a] # applies[a])
          => /\ stats'.l2SubmissionErrors = stats.l2SubmissionErrors
             /\ stats'.updatesSynced = stats.updatesSynced
             /\ applies'[a].pc = "idle"
             /\ IF applies[a].item.retries < maxRetries
                THEN /\ stats'.errors = stats.errors
                     /\ queue' # queue
                     /\ queue'[Len(queue')] = [applies[a].item EXCEPT !.retries = @ + 1]
                ELSE /\ stats'.errors = stats.errors + 1
                     /\ queue' = queue]_vars

\* the wait for the confirmations failed after the write was mined: the ledger
\* holds the records, no update is counted as synced, the task waits for a retry
C34_Witness ==
  /\ stats.l2SubmissionErrors = 1
  /\ stats.updatesSynced = 0
  /\ stats.errors = 0
  /\ \E d \in Domains : l2Types[d] # <<>>
  /\ Len(queue) = 1 /\ queue[1].retries = 1
  /\ \A a \in Applies : applies[a].pc = "idle"

\* ------------------------------------------- the bridge under fair scheduling
\* setInterval keeps firing both callbacks while their intervals are set, and a
\* call that is awaited returns: every step of a poll cycle and of an apply that
\* is not a failure is taken if it stays possible. Failures stay unforced.
FairScheduling ==
  /\ WF_vars(StartResume)
  /\ \A p \in 1..MaxPolls :
       /\ WF_vars(PollTick(p))
       /\ WF_vars(PollNoNewBlock(p))
       /\ WF_vars(PollQueryUpdates(p))
       /\ WF_vars(PollQueryRegistered(p))
       /\ WF_vars(PollAdvance(p))
       /\ WF_vars(PollGetDomain(p))
  /\ \A a \in 1..MaxApplies :
       /\ WF_vars(ApplyTick(a))
       /\ WF_vars(ApplyFetched(a))
       /\ WF_vars(ApplyMock(a))
       /\ WF_vars(ApplySubmitted(a))
       /\ WF_vars(ApplyConfirmed(a))
       /\ WF_vars(ApplyCatch(a))

SpecFair == Init /\ [][Next]_vars /\ FairScheduling

\* start() has returned true: both intervals are set
Started == startCall.pc = "returned" /\ startCall.result

\* an update event of domain d with content c above the cursor start() chose
UpdateAboveStartCursor(d, c) ==
  /\ Started
  /\ \E i \in 1..Len(l1Events) :
       /\ l1Events[i].kind = "DomainUpdated"
       /\ l1Events[i].domainHash = d
       /\ l1Events[i].contentHash = c
       /\ l1Events[i].blockNumber > startCall.currentBlock - SafetyWindow

\* the fast ledger holds records of domain d
WrittenToL2(d) == l2Types[d] # <<>>

\* a task of domain d with content c is queued or being applied
TaskPending(d, c) ==
  \E t \in TasksQueued \cup TasksInFlight : t.domainHash = d /\ t.contentHash = c

\* no task fails more often than it is retried
WritesEventuallySucceed == [](stats.l2SubmissionErrors <= maxRetries)

\* C35: eventual consistency under fair scheduling. Every task that enters the
\* queue eventually leaves it for good, and by then its records are on the fast
\* ledger unless it was abandoned; and, if batch writes eventually succeed,
\* every update event above the startup cursor is eventually written to the
\* fast ledger.
C35_EventualConsistency ==
  /\ \A d \in Domains, c \in Contents :
       TaskPending(d, c) ~> ~TaskPending(d, c)
  /\ \A d \in Domains, c \in Contents :
       TaskPending(d, c)
       ~> (~TaskPending(d, c) /\ (WrittenToL2(d) \/ stats.l2SubmissionErrors > maxRetries))
  /\ WritesEventuallySucceed
     => \A d \in Domains, c \in Contents : UpdateAboveStartCursor(d, c) ~> WrittenToL2(d)

\* the tasks leave: every queued task is eventually neither queued nor in flight
C35_TasksLeave ==
  \A d \in Domains, c \in Contents : TaskPending(d, c) ~> ~TaskPending(d, c)

\* for documents that hold records the events are written
C35_ValidContentWritten ==
  WritesEventuallySucceed => (UpdateAboveStartCursor("d1", "c1") ~> WrittenToL2("d1"))

\* ------------------------------------ the bridge with overlapping applies
\* activation records of the apply callback that can be live at one time: the
\* interval fires every second whether or not the previous callback has returned
MaxOverlap == 2
\* poll cycles that can be live at one time beside the overlapping applies
OverlapPolls == 1

InitOverlap ==
  /\ ChainInit
  /\ lastProcessedBlock = 0
  /\ queue = <<>>
  /\ stats = ZeroStats
  /\ pollingInterval = NoTimer
  /\ timers = {}
  /\ timersCreated = 0
  /\ startCall = StartIdle
  /\ starts = 0
  /\ polls = [p \in 1..MaxPolls |-> PollIdle]
  /\ applies = [a \in 1..MaxOverlap |-> ApplyIdle]
  /\ faults = 0
  /\ stopped = FALSE
  /\ LedgerEmpty /\ HarnessIdle /\ ClientIdle /\ SideIdle

NextOverlap ==
  \/ L1Step
  \/ StartBegin
  \/ StartResume
  \/ StartFail
  \/ \E p \in 1..OverlapPolls : PollTick(p)
  \/ \E p \in 1..OverlapPolls : PollNoNewBlock(p)
  \/ \E p \in 1..OverlapPolls : PollQueryUpdates(p)
  \/ \E p \in 1..OverlapPolls : PollQueryRegistered(p)
  \/ \E p \in 1..OverlapPolls : PollQueryFail(p)
  \/ \E p \in 1..OverlapPolls : PollAdvance(p)
  \/ \E p \in 1..OverlapPolls : PollGetDomain(p)
  \/ \E p \in 1..OverlapPolls : PollGetDomainFail(p)
  \/ ApplyTickEmpty
  \/ \E a \in 1..MaxOverlap : ApplyTick(a)
  \/ \E a \in 1..MaxOverlap : ApplyFetched(a)
  \/ \E a \in 1..MaxOverlap : ApplyFetchFail(a)
  \/ \E a \in 1..MaxOverlap : ApplyMock(a)
  \/ \E a \in 1..MaxOverlap : ApplySubmitted(a)
  \/ \E a \in 1..MaxOverlap : ApplyConfirmed(a)
  \/ \E a \in 1..MaxOverlap : ApplyFail(a)
  \/ \E a \in 1..MaxOverlap : ApplyCatch(a)

SpecOverlap == InitOverlap /\ [][NextOverlap]_vars

\* the apply callbacks that have dequeued a task and have not returned
InFlight == {a \in DOMAIN applies : applies[a].pc # "idle"}
\* those whose batch write is submitted and not yet confirmed or failed
Submitting == {a \in DOMAIN applies : applies[a].pc \in {"submit", "wait"}}

\* C36: at any time at most one task is in flight, and batch writes to the fast
\* ledger are never submitted concurrently.
C36_AtMostOneInFlight ==
  /\ Cardinality(InFlight) <= 1
  /\ Cardinality(Submitting) <= 1

\* ------------------------------------ the client over a synced fast ledger
\* the fast ledger after the bridge applied the task of document doc to domain d
SyncedLedger(d, doc) ==
  LET rows == Flatten(doc)
  IN setBatchRecords([records |-> [x \in Domains |-> [t \in RecordTypes |-> NoRecord]],
                      types |-> [x \in Domains |-> <<>>]],
                     d, Column(rows, "type"), Column(rows, "value"), Column(rows, "ttl"))

\* what the bridge fetches for a content hash: the stored document, or the mock
\* record set when the content store failed
SyncedDocs(c) == {ContentStore(c), getMockRecordsFromHash(c)}

\* every domain is registered with content c1, far from expiry, and the bridge
\* has applied the update task of c1
InitSynced ==
  /\ \E h \in InitHeights :
       /\ l1Height = h + 3
       /\ l1Events = <<ChangedEvent("RenewalPeriodChanged", h + 1, 10000 - RegisteredAt),
                       RegisteredEvent("d1", h + 2, 10000), UpdatedEvent("d1", "c1", h + 3)>>
  /\ l1Domains = [d \in Domains |-> [owner |-> TRUE, contentHash |-> "c1"]]
  /\ l1Expiry = [d \in Domains |-> 10000]
  /\ registrationFee = InitialFee
  /\ renewalPeriod = 10000 - RegisteredAt
  /\ BridgeInit
  /\ HarnessIdle
  /\ SideIdle
  /\ \E doc \in SyncedDocs("c1") :
       /\ l2Records = SyncedLedger("d1", doc).records
       /\ l2Types = SyncedLedger("d1", doc).types
  /\ now = ClockStart
  /\ cache = [k \in CacheKeys |-> NoEntry]
  /\ clientStats = ZeroClientStats
  /\ config \in Configs
  /\ call = CallIdle
  /\ calls = 0
  /\ ticks = 0

SpecSynced == InitSynced /\ [][NextQueries]_vars

\* the fast ledger holds, for the domain queried, the records synced from the
\* domain's current content reference
InSync ==
  \E doc \in SyncedDocs(l1Domains[call.domain].contentHash) :
    l2Records[call.domain] = SyncedLedger(call.domain, doc).records[call.domain]

\* C37: a verified query over a fast ledger that holds the records synced from
\* the domain's current content reference returns the fast-tier result: the
\* value(s) the fast read gave, with source l2.
C37_InSyncVerifiedReturnsFast ==
  [][(call.ctx = "verify" /\ call.pc \in {"l1", "l1ret", "bl1", "bl1ret"}
        /\ call'.pc = "returned"
        /\ l1Domains[call.domain].owner /\ InSync)
     => /\ call'.result.source = "l2"
        /\ call.pc = "l1ret" => call'.result.value = call.held.value
        /\ call.pc = "bl1ret" => call'.result.values = call.held.values]_vars

\* the call returns in this step
CallReturns == call.pc # "returned" /\ call'.pc = "returned"

\* C38: the cache never holds an entry whose value is null or empty or whose
\* source is error, and a query that returns a null or empty value for a key, or
\* an error result, leaves the cache as it was for that key.
C38_CacheHoldsOnlyValues ==
  /\ [](\A k \in CacheKeys :
          cache[k].present
          => Truthy(cache[k].value) /\ cache[k].source \in {"l1", "l2"})
  /\ [][(CallReturns /\ call'.types = <<>> /\ ~Truthy(call'.result.value))
        => cache' = cache]_vars
  /\ [][(CallReturns /\ call'.types # <<>>)
        => /\ call'.result.source = "error" => cache' = cache
           /\ \A i \in 1..Len(call'.types) :
                ~Truthy(call'.result.values[i])
                  => cache'[<<call'.domain, call'.types[i]>>]
                       = cache[<<call'.domain, call'.types[i]>>]]_vars

\* with the cache enabled, a query for the A record of a registered domain
\* whose expiry date has passed returned the empty result of an expired domain
\* and left no entry for its key
C38_Witness ==
  /\ config.useCache
  /\ call.pc = "returned"
  /\ call.type = "A"
  /\ l1Domains[call.domain].owner
  /\ call.result.value = Null
  /\ call.result.source = "l1"
  /\ call.result.error = "Domain expired"
  /\ ~cache[<<call.domain, "A">>].present
  /\ clientStats.l1Queries = 1

\* the call in progress is inside an authoritative read
InL1Read ==
  call.pc \in {"l1", "ipfs", "l1ret", "l1thrown", "bl1", "bipfs", "bl1ret", "bl1thrown"}

\* C39: each resolveDomain or resolveBatch call reads the fast ledger at most
\* once and the authoritative ledger at most once, so neither counter exceeds the
\* number of calls and no authoritative read starts out of an authoritative
\* read of the same call; and the fallback to the authoritative tier is taken
\* only by the catch of a failed fast-tier read.
C39_OneReadPerTierPerCall ==
  /\ [](clientStats.l2Queries <= clientStats.totalQueries)
  /\ [](clientStats.l1Queries <= clientStats.totalQueries)
  /\ [][clientStats'.l2Queries # clientStats.l2Queries
        => /\ clientStats'.l2Queries = clientStats.l2Queries + 1
           /\ call.pc \in {"idle", "returned"}]_vars
  /\ [][clientStats'.l1Queries # clientStats.l1Queries
        => /\ clientStats'.l1Queries = clientStats.l1Queries + 1
           /\ ~InL1Read]_vars
  /\ [][(call'.ctx = "fallback" /\ call.ctx # "fallback")
        => call.pc \in {"l2thrown", "bl2thrown"}]_vars

\* the fast ledger is read at most once per call
C39_FastLedgerReadOnce ==
  /\ [](clientStats.l2Queries <= clientStats.totalQueries)
  /\ [][clientStats'.l2Queries # clientStats.l2Queries
        => /\ clientStats'.l2Queries = clientStats.l2Queries + 1
           /\ call.pc \in {"idle", "returned"}]_vars

\* the bridge with its stop operation
NextStop == Next \/ stop

SpecStop == Init /\ [][NextStop]_vars
====
